---- MODULE Spec2Model ----
(***************************************************************************)
(* Model of the JWT metrics relay (Supabase edge function                  *)
(* metrics-proxy-jwt, src/unnamed/part_001): the endpoint health monitor,  *)
(* the aggregator fetchAndAggregateMetrics and the routes that call it,    *)
(* the session recorder and the routes that list and export its events.    *)
(*                                                                         *)
(* JavaScript runs one continuation at a time: a step of the model is the  *)
(* code that runs between two awaits.  Wall-clock time is abstracted: a    *)
(* time stamp of the health monitor is the ordinal of the observation      *)
(* that set it, and the time stamps of the payload are left out.           *)
(***************************************************************************)
EXTENDS Integers, Sequences, FiniteSets, TLC

VARIABLES
    config,          \* the process environment read at start-up (part_001:126-131)
    healthState,     \* Map<string, EndpointHealthEntry> (part_001:162)
    call,            \* the HTTP requests being served, by request id
    recorded,        \* history: the success flags each fan-out call passed to recordEndpointResult
    obs,             \* history: every observation recorded per endpoint, in arrival order
    sessionInserts,  \* the session_events inserts dispatched by recordSessionEvent
    steps,           \* number of direct applications of recordEndpointResult (HealthSpec)
    wallClock,       \* the wall clock, in whole seconds (Date.now() / 1000, time.time())
    minted,          \* history: the internal tokens createInternalJWT returned, per request
    sent,            \* history: the upstream requests each request issued with fetch
    gate,            \* the VPS side: nginx, the JWT validator and what reached the metrics API
    sessionEvents,   \* the rows of table session_events (001_session_events.sql:6-13)
    console,         \* the lines written with console.error by the session recorder
    hook             \* the useMetricsJWT hook of one mounted dashboard component

\* no dashboard component is mounted
NoHook == << >>

vars == <<config, healthState, call, recorded, obs, sessionInserts, steps,
          wallClock, minted, sent, gate,
          sessionEvents, console, hook>>

---------------------------------------------------------------------------
\* Bounds of the model

\* requests that may be in flight together (ConcSpec)
MaxCalls == 2
\* all-successful aggregations served before the run starts (HistSpec)
MaxPrior == 10
\* successes / failures observed on an endpoint before the run starts (HealthSpec)
MaxPreSuccess == 24
MaxPreFailure == 3
\* direct applications of recordEndpointResult in a run (HealthSpec)
MaxSteps == 2
\* last second of the wall clock (GateSpec): past the life of a token
MaxClock == 62
\* latest second at which the token of a GateSpec run is minted
MaxMintAt == 1
\* seconds the clock may advance between the two clock reads of one mint
MaxClockLag == 1
\* last second of the wall clock while relay calls overlap (RelaySpec)
MaxRelayClock == 1
\* rows of table session_events when the run starts (SessionSpec)
MaxEvents == 3

---------------------------------------------------------------------------
\* Configuration constants

HEALTH_WINDOW_SIZE == 20

AGGREGATE_ENDPOINTS ==
    << "/brokers/status", "/trades/live", "/strategies/proving",
       "/strategies/promotions", "/metrics/gate-pressure" >>

EndpointSet == { AGGREGATE_ENDPOINTS[i] : i \in 1..Len(AGGREGATE_ENDPOINTS) }

CallIds == 1..MaxCalls

\* an absent JSON number field / an undefined EndpointResult.status
Absent == 0 - 1
\* lastSuccess / lastFailure of an entry that has none (time stamps are ordinals >= 1)
Null == 0

---------------------------------------------------------------------------
\* Arithmetic helpers

RECURSIVE SeqSum(_)
SeqSum(s) == IF s = <<>> THEN 0 ELSE Head(s) + SeqSum(Tail(s))

RECURSIVE GCD(_, _)
GCD(a, b) == IF b = 0 THEN a ELSE GCD(b, a % b)

\* a non-negative rational num/den in lowest terms
Frac(n, d) ==
    LET g == GCD(n, d) IN [num |-> n \div g, den |-> d \div g]

AddFrac(x, y) == Frac(x.num * y.den + y.num * x.den, x.den * y.den)

\* Math.round(n / d) for n >= 0, d > 0 (halves round up)
RoundDiv(n, d) == (2 * n + d) \div (2 * d)

---------------------------------------------------------------------------
\* Endpoint health monitor

initEndpointHealth(endpoint) ==
    [ endpoint     |-> endpoint,
      lastSuccess  |-> Null,
      lastFailure  |-> Null,
      successCount |-> 0,
      failureCount |-> 0,
      avgLatencyMs |-> Frac(0, 1),
      latencies    |-> <<>> ]

\* the health map after recordEndpointResult(endpoint, success, latencyMs) ran on map h;
\* the function has no await, so it runs as one step
RecordEndpointResult_overwrite(h, endpoint, success, latencyMs) ==
    LET entry0 == initEndpointHealth(endpoint)
        now    == 1
        entry1 == IF success
                  THEN [entry0 EXCEPT !.lastSuccess = now, !.successCount = @ + 1]
                  ELSE [entry0 EXCEPT !.lastFailure = now, !.failureCount = @ + 1]
        window == <<latencyMs>>
        entry2 == [entry1 EXCEPT !.latencies = window,
                                 !.avgLatencyMs = Frac(SeqSum(window), Len(window))]
    IN  [e \in (DOMAIN h) \cup {endpoint} |-> IF e = endpoint THEN entry2 ELSE h[e]]

RecordEndpointResult_noevict(h, endpoint, success, latencyMs) ==
    LET entry0 == IF endpoint \in DOMAIN h THEN h[endpoint]
                  ELSE initEndpointHealth(endpoint)
        now    == entry0.successCount + entry0.failureCount + 1
        entry1 == IF success
                  THEN [entry0 EXCEPT !.lastSuccess = now, !.successCount = @ + 1]
                  ELSE [entry0 EXCEPT !.lastFailure = now, !.failureCount = @ + 1]
        pushed == Append(entry1.latencies, latencyMs)
        window == IF Len(pushed) > HEALTH_WINDOW_SIZE
                  THEN SubSeq(pushed, 1, HEALTH_WINDOW_SIZE)
                  ELSE pushed
        entry2 == [entry1 EXCEPT !.latencies = window,
                                 !.avgLatencyMs = Frac(SeqSum(window), Len(window))]
    IN  [e \in (DOMAIN h) \cup {endpoint} |-> IF e = endpoint THEN entry2 ELSE h[e]]

RecordEndpointResult(h, endpoint, success, latencyMs) ==
    LET entry0 == IF endpoint \in DOMAIN h THEN h[endpoint]
                  ELSE initEndpointHealth(endpoint)
        now    == entry0.successCount + entry0.failureCount + 1
        entry1 == IF success
                  THEN [entry0 EXCEPT !.lastSuccess = now, !.successCount = @ + 1]
                  ELSE [entry0 EXCEPT !.lastFailure = now, !.failureCount = @ + 1]
        pushed == Append(entry1.latencies, latencyMs)
        window == IF Len(pushed) > HEALTH_WINDOW_SIZE THEN Tail(pushed) ELSE pushed
        entry2 == [entry1 EXCEPT !.latencies = window,
                                 !.avgLatencyMs = Frac(SeqSum(window), Len(window))]
    IN  [e \in (DOMAIN h) \cup {endpoint} |-> IF e = endpoint THEN entry2 ELSE h[e]]

\* status of one entry (part_001:212-215).  successRate = successCount / total is
\* compared as a double with 0.9 and 0.5; for counters below 2^50 the comparison
\* agrees with the exact one, 10 * successCount >= 9 * total.
EndpointStatus_strict(entry) ==
    LET total == entry.successCount + entry.failureCount
    IN  IF total > 0 /\ 10 * entry.successCount > 9 * total THEN "healthy"
        ELSE IF total > 0 /\ 2 * entry.successCount > total THEN "degraded"
        ELSE "down"

EndpointStatus(entry) ==
    LET total == entry.successCount + entry.failureCount
    IN  IF total > 0 /\ 10 * entry.successCount >= 9 * total THEN "healthy"
        ELSE IF total > 0 /\ 2 * entry.successCount >= total THEN "degraded"
        ELSE "down"

\* Math.round(successRate * 100) (part_001:221); exact for totals below 40
SuccessRatePct(entry) ==
    LET total == entry.successCount + entry.failureCount
    IN  IF total > 0 THEN RoundDiv(100 * entry.successCount, total) ELSE 0

\* the accumulator assigned instead of added to
SumAvg_assign(h, eps) ==
    IF eps = {} THEN Frac(0, 1) ELSE h[CHOOSE x \in eps : TRUE].avgLatencyMs

RECURSIVE SumAvg(_, _)
SumAvg(h, eps) ==
    IF eps = {} THEN Frac(0, 1)
    ELSE LET e == CHOOSE x \in eps : TRUE
         IN  AddFrac(h[e].avgLatencyMs, SumAvg(h, eps \ {e}))

\* getHealthSnapshot() on map h (lastChecked, a wall-clock time, is left out)
GetHealthSnapshot(h) ==
    LET keys           == DOMAIN h
        healthyCount   == Cardinality({e \in keys : EndpointStatus(h[e]) = "healthy"})
        degradedCount  == Cardinality({e \in keys : EndpointStatus(h[e]) = "degraded"})
        totalEndpoints == Cardinality(keys)
        totalLatency   == SumAvg(h, keys)
    IN  [ vpsReachable        |-> healthyCount > 0,
          totalEndpoints      |-> totalEndpoints,
          healthyEndpoints    |-> healthyCount,
          degradedEndpoints   |-> degradedCount,
          avgOverallLatencyMs |->
              IF totalEndpoints > 0
              THEN RoundDiv(totalLatency.num, totalLatency.den * totalEndpoints)
              ELSE 0,
          endpoints |->
              [e \in keys |->
                  [ status       |-> EndpointStatus(h[e]),
                    lastSuccess  |-> h[e].lastSuccess,
                    lastFailure  |-> h[e].lastFailure,
                    successRate  |-> SuccessRatePct(h[e]),
                    avgLatencyMs |-> RoundDiv(h[e].avgLatencyMs.num, h[e].avgLatencyMs.den) ]] ]

---------------------------------------------------------------------------
\* Configuration of a deployment (Deno.env, read once at module load)

FullConfig ==
    [ VPS_METRICS_ENDPOINT      |-> "https://vps",
      INTERNAL_JWT_SECRET       |-> "secret",
      SUPABASE_SERVICE_ROLE_KEY |-> "service-key" ]

Configs ==
    { FullConfig,
      [FullConfig EXCEPT !.VPS_METRICS_ENDPOINT = ""],
      [FullConfig EXCEPT !.INTERNAL_JWT_SECRET = ""],
      [FullConfig EXCEPT !.SUPABASE_SERVICE_ROLE_KEY = ""] }

\* getServiceClient() returns a client only when the storage backend is configured
\* (SUPABASE_URL is taken as set)
getServiceClient(cfg) == cfg.SUPABASE_SERVICE_ROLE_KEY # ""

---------------------------------------------------------------------------
\* Credential verification

AuthHeaders == { "", "Bearer good", "Bearer bad" }

\* verifySupabaseJWT(authHeader): the identity provider accepts the token "good"
verifySupabaseJWT(authHeader) ==
    IF authHeader = ""
    THEN [valid |-> FALSE, userId |-> "", email |-> "", role |-> "",
          error |-> "Missing or invalid Authorization header"]
    ELSE IF authHeader = "Bearer good"
    THEN [valid |-> TRUE, userId |-> "u1", email |-> "u1@example.com",
          role |-> "authenticated", error |-> ""]
    ELSE [valid |-> FALSE, userId |-> "", email |-> "", role |-> "",
          error |-> "Invalid token"]

NoAuth == [valid |-> FALSE, userId |-> "", email |-> "", role |-> "", error |-> ""]

---------------------------------------------------------------------------
\* Internal tokens (part_001:133-135, 326-346)

INTERNAL_JWT_ISSUER == "supabase-metrics-proxy"
INTERNAL_JWT_AUDIENCE == "vps-metrics-api"
INTERNAL_JWT_TTL_SECONDS == 60

\* a registered claim the token does not have
NoClaim == ""

\* createInternalJWT(userId, email, role) signed with `secret`.  The builder reads the
\* clock twice: setIssuedAt() stamps iat with the second it runs in (issuedAt), and
\* setExpirationTime("60s") adds the span to the second IT runs in (expiryBase).  An
\* undefined email ("" here) is dropped by JSON serialisation: the token has no email
\* claim.  The HS256 signature is modelled by the key it was computed with.
createInternalJWT(secret, userId, email, role, issuedAt, expiryBase) ==
    [ sub   |-> userId,
      email |-> IF email = "" THEN <<>> ELSE <<email>>,
      roles |-> <<role>>,
      aud   |-> INTERNAL_JWT_AUDIENCE,
      iss   |-> INTERNAL_JWT_ISSUER,
      iat   |-> issuedAt,
      exp   |-> expiryBase + INTERNAL_JWT_TTL_SECONDS,
      key   |-> secret ]

\* the request headers of an upstream fetch (part_001:378-382, 970-974)
UpstreamRequest(path, internalJWT, authResult) ==
    [ path          |-> path,
      authorization |-> internalJWT,
      proxyUser     |-> IF authResult.email = "" THEN "unknown" ELSE authResult.email ]

---------------------------------------------------------------------------
\* The internal gatekeeper: jwt_validator.py (part_004:124-184)

EXPECTED_ISSUER_other == "metrics-proxy"

EXPECTED_ISSUER == "supabase-metrics-proxy"
EXPECTED_AUDIENCE == "vps-metrics-api"

\* Authorization headers a request may carry at the VPS
NoHeader        == [kind |-> "none", token |-> <<>>]
BasicHeader     == [kind |-> "basic", token |-> <<>>]
MalformedBearer == [kind |-> "bearer-malformed", token |-> <<>>]
Bearer(token)   == [kind |-> "bearer", token |-> <<token>>]

Deny(reason) ==
    [allowed |-> FALSE, status |-> 401, reason |-> reason, userId |-> "", email |-> ""]

\* the audience check left out
validate_jwt_noAudience(authorization, secret, clock) ==
    IF authorization.kind = "none" THEN Deny("Missing Authorization header")
    ELSE IF authorization.kind = "basic" THEN Deny("Invalid Authorization format")
    ELSE IF authorization.kind = "bearer-malformed" THEN Deny("Invalid token")
    ELSE LET payload == authorization.token[1]
         IN  IF payload.key # secret THEN Deny("Invalid token")
             ELSE IF payload.exp <= clock THEN Deny("Token expired")
             ELSE IF payload.iss = NoClaim THEN Deny("Invalid token")
             ELSE IF payload.iss # EXPECTED_ISSUER THEN Deny("Invalid issuer")
             ELSE [allowed |-> TRUE, status |-> 200, reason |-> "",
                   userId |-> payload.sub,
                   email |-> IF payload.email = <<>> THEN "" ELSE payload.email[1]]

\* validate_jwt(authorization) with the secret file holding `secret`, run at `clock`:
\* jwt.decode verifies the signature, then exp, iss and aud; every jwt error other than
\* the three named ones falls to the InvalidTokenError handler.  On success the
\* response carries X-Auth-User-Id / X-Auth-User-Email taken from sub / email.
validate_jwt(authorization, secret, clock) ==
    IF authorization.kind = "none" THEN Deny("Missing Authorization header")
    ELSE IF authorization.kind = "basic" THEN Deny("Invalid Authorization format")
    ELSE IF authorization.kind = "bearer-malformed" THEN Deny("Invalid token")
    ELSE LET payload == authorization.token[1]
         IN  IF payload.key # secret THEN Deny("Invalid token")
             ELSE IF payload.exp <= clock THEN Deny("Token expired")
             ELSE IF payload.iss = NoClaim THEN Deny("Invalid token")
             ELSE IF payload.iss # EXPECTED_ISSUER THEN Deny("Invalid issuer")
             ELSE IF payload.aud = NoClaim THEN Deny("Invalid token")
             ELSE IF payload.aud # EXPECTED_AUDIENCE THEN Deny("Invalid audience")
             ELSE [allowed |-> TRUE, status |-> 200, reason |-> "",
                   userId |-> payload.sub,
                   email |-> IF payload.email = <<>> THEN "" ELSE payload.email[1]]

---------------------------------------------------------------------------
\* nginx in front of the metrics API (part_004:278-342)

\* `location /health` as a prefix match
IsPublicLocation_prefix(path) == path \in { "/health", "/health/live" }

\* `location = /health` is an exact match; every other path falls to `location /`
IsPublicLocation(path) == path = "/health"

\* the request nginx passes to the metrics API.  proxy_pass forwards the client's
\* request headers as they came (no proxy_set_header touches Authorization);
\* `location /` adds X-Auth-User-Id / X-Auth-User-Email from the validator's response
ProxiedRequest(request, decision) ==
    [ path           |-> request.path,
      authorization  |-> request.authorization,
      xAuthUserId    |-> IF decision = <<>> THEN <<>> ELSE <<decision[1].userId>>,
      xAuthUserEmail |-> IF decision = <<>> THEN <<>> ELSE <<decision[1].email>>,
      validated      |-> decision # <<>> ]

NoRequest == [path |-> "", method |-> "", authorization |-> NoHeader]

IdleGate ==
    [ secret   |-> "secret",
      identity |-> <<>>,
      token    |-> <<>>,
      pc       |-> "idle",
      request  |-> NoRequest,
      decision |-> <<>>,
      status   |-> 0,
      received |-> <<>> ]

---------------------------------------------------------------------------
\* Upstream JSON bodies.  One record shape stands for a JSON object of any of the five
\* endpoints: a field the object does not have is "absent" (Absent for a number); an
\* array field holds kind "array" and its items, and kind "other" when the upstream
\* sent something that is not an array there.

EmptyObject ==
    [ connected        |-> "absent",
      strategies       |-> [kind |-> "absent", items |-> <<>>],
      pipeline_health  |-> Absent,
      positions        |-> [kind |-> "absent", items |-> <<>>],
      recent_count     |-> Absent,
      current_pressure |-> Absent ]

BrokerUp   == [EmptyObject EXCEPT !.connected = "true"]
BrokerDown == [EmptyObject EXCEPT !.connected = "false"]

\* one element of the upstream's positions array; a text field the element lacks is
\* "absent"
PositionHeld ==
    [ size |-> 5, quantity |-> Absent, entry_price |-> 100, avg_price |-> 101,
      current_price |-> Absent, mark_price |-> 102, unrealized_pnl |-> 4, pnl |-> Absent,
      open_time |-> "09:30", timestamp |-> "09:31" ]
PositionByQuantity ==
    [ size |-> Absent, quantity |-> 7, entry_price |-> Absent, avg_price |-> 101,
      current_price |-> 103, mark_price |-> 102, unrealized_pnl |-> Absent, pnl |-> 6,
      open_time |-> "absent", timestamp |-> "09:31" ]
PositionFlat ==
    [ size |-> 0, quantity |-> 7, entry_price |-> 0, avg_price |-> 101,
      current_price |-> 0, mark_price |-> 102, unrealized_pnl |-> 0, pnl |-> 6,
      open_time |-> "", timestamp |-> "09:31" ]

TradesTwo ==
    [EmptyObject EXCEPT !.positions =
        [kind |-> "array", items |-> << PositionHeld, PositionByQuantity >>]]
TradesFlat ==
    [EmptyObject EXCEPT !.positions = [kind |-> "array", items |-> << PositionFlat >>]]
TradesMalformed ==
    [EmptyObject EXCEPT !.positions = [kind |-> "other", items |-> <<>>]]

ProvingBusy ==
    [EmptyObject EXCEPT !.strategies =
                            [kind |-> "array", items |-> <<"active", "queued", "active">>],
                        !.pipeline_health = 80]
ProvingStalled ==
    [EmptyObject EXCEPT !.strategies = [kind |-> "array", items |-> <<"queued">>],
                        !.pipeline_health = 0]
ProvingMalformed ==
    [EmptyObject EXCEPT !.strategies = [kind |-> "other", items |-> <<>>]]

PromotionsSome == [EmptyObject EXCEPT !.recent_count = 3]
GateSome       == [EmptyObject EXCEPT !.current_pressure = 4]

\* the bodies an endpoint may answer with a 2xx status
BodiesOf(endpoint) ==
    CASE endpoint = "/brokers/status"        -> { BrokerUp, BrokerDown }
      [] endpoint = "/trades/live"           -> { TradesTwo, TradesFlat, TradesMalformed }
      [] endpoint = "/strategies/proving"    -> { ProvingBusy, ProvingStalled, ProvingMalformed }
      [] endpoint = "/strategies/promotions" -> { PromotionsSome }
      [] endpoint = "/metrics/gate-pressure" -> { GateSome }

\* bodies of the shape the merge step is written for
WellFormed(body) == body.strategies.kind # "other" /\ body.positions.kind # "other"

\* How one upstream request ends: "ok" is a 2xx response whose body parses, "http" a
\* non-2xx response, "throw" a rejected fetch (network-level exception), "badjson" a
\* 2xx response whose body res.json() rejects.
OkOutcome(body) == [kind |-> "ok", status |-> 200, body |-> <<body>>]
HttpOutcome     == [kind |-> "http", status |-> 500, body |-> <<>>]
ThrowOutcome    == [kind |-> "throw", status |-> Absent, body |-> <<>>]
BadJsonOutcome  == [kind |-> "badjson", status |-> 200, body |-> <<>>]

OutcomesOf(endpoint) ==
    { OkOutcome(b) : b \in BodiesOf(endpoint) }
        \cup { HttpOutcome, ThrowOutcome, BadJsonOutcome }

\* Date.now() - start of a fan-out call
Latencies == { 15 }

---------------------------------------------------------------------------
\* One fan-out call of fetchAndAggregateMetrics (part_001:374-410)

NoResult ==
    [ state |-> "none", data |-> <<>>, success |-> FALSE, status |-> Absent,
      error |-> "", latencyMs |-> 0 ]

PendingResult == [NoResult EXCEPT !.state = "pending"]

\* the EndpointResult the async callback returns
EndpointResultOf(outcome, latencyMs) ==
    CASE outcome.kind = "ok" ->
            [ state |-> "settled", data |-> outcome.body, success |-> TRUE,
              status |-> outcome.status, error |-> "", latencyMs |-> latencyMs ]
      [] outcome.kind = "http" ->
            [ state |-> "settled", data |-> <<>>, success |-> FALSE,
              status |-> outcome.status, error |-> "", latencyMs |-> latencyMs ]
      [] OTHER ->
            [ state |-> "settled", data |-> <<>>, success |-> FALSE,
              status |-> Absent, error |-> outcome.kind, latencyMs |-> latencyMs ]

\* the success flags the callback passes to recordEndpointResult, in call order
FetchRecords_dropThrow(outcome) ==
    CASE outcome.kind = "ok"      -> << TRUE >>
      [] outcome.kind = "http"    -> << FALSE >>
      [] outcome.kind = "throw"   -> << >>
      [] outcome.kind = "badjson" -> << FALSE >>

FetchRecords(outcome) ==
    CASE outcome.kind = "ok"      -> << TRUE >>
      [] outcome.kind = "http"    -> << FALSE >>
      [] outcome.kind = "throw"   -> << FALSE >>
      [] outcome.kind = "badjson" -> << FALSE >>

RECURSIVE ApplyRecords(_, _, _, _)
ApplyRecords(h, endpoint, flags, latencyMs) ==
    IF flags = <<>> THEN h
    ELSE ApplyRecords(RecordEndpointResult(h, endpoint, Head(flags), latencyMs),
                      endpoint, Tail(flags), latencyMs)

ObsOf(flags, latencyMs) ==
    [i \in 1..Len(flags) |-> [success |-> flags[i], latencyMs |-> latencyMs]]

---------------------------------------------------------------------------
\* The merge step of fetchAndAggregateMetrics (part_001:413-588)

\* results.find((r) => r.endpoint === endpoint)?.data || {}
DataOf(results, endpoint) ==
    LET r == results[CHOOSE i \in 1..Len(results) : AGGREGATE_ENDPOINTS[i] = endpoint]
    IN  IF r.data = <<>> THEN EmptyObject ELSE r.data[1]

\* v || d for a number v that may be undefined
OrNum(v, d) == IF v = Absent \/ v = 0 THEN d ELSE v

\* v || d for a string v that may be undefined
OrText(v, d) == IF v = "absent" \/ v = "" THEN d ELSE v

CountState(items, state) == Cardinality({i \in 1..Len(items) : items[i] = state})

\* proving.strategies?.filter(...) and (trades.positions || []).map(...) raise a
\* TypeError when the field is present and is not an array
MergeThrows_anyFailure(results) ==
    \/ DataOf(results, "/strategies/proving").strategies.kind = "other"
    \/ DataOf(results, "/trades/live").positions.kind = "other"
    \/ \E i \in 1..Len(results) : ~results[i].success

MergeThrows(results) ==
    \/ DataOf(results, "/strategies/proving").strategies.kind = "other"
    \/ DataOf(results, "/trades/live").positions.kind = "other"

BuildPayload(authResult, results, healthSnapshot) ==
    LET broker       == DataOf(results, "/brokers/status")
        trades       == DataOf(results, "/trades/live")
        proving      == DataOf(results, "/strategies/proving")
        promotions   == DataOf(results, "/strategies/promotions")
        gatePressure == DataOf(results, "/metrics/gate-pressure")
        isConnected  == broker.connected = "true"
        activeStrategies == CountState(proving.strategies.items, "active")
    IN  [ systemVerdict |-> [state |-> IF isConnected THEN "NOMINAL" ELSE "DEGRADED"],
          operatorRecommendation |->
              [value |-> IF activeStrategies > 0 THEN "MONITOR" ELSE "INVESTIGATE"],
          markets |->
              [ futures |-> [connected |-> isConnected,
                             activeStrategies |-> activeStrategies],
                crypto  |-> [connected |-> FALSE, activeStrategies |-> 0] ],
          strategyActivity |->
              [ provingPipeline |->
                    [ total  |-> Len(proving.strategies.items),
                      active |-> activeStrategies,
                      queued |-> CountState(proving.strategies.items, "queued"),
                      health |-> OrNum(proving.pipeline_health, 100) ],
                promotions   |-> [recentCount |-> OrNum(promotions.recent_count, 0)],
                gatePressure |-> [current |-> OrNum(gatePressure.current_pressure, 0)] ],
          positions |->
              [i \in 1..Len(trades.positions.items) |->
                  LET p == trades.positions.items[i]
                  IN  [ id           |-> i,
                        size         |-> OrNum(p.size, p.quantity),
                        entryPrice   |-> OrNum(p.entry_price, p.avg_price),
                        currentPrice |-> OrNum(p.current_price, p.mark_price),
                        pnl          |-> OrNum(p.unrealized_pnl, p.pnl),
                        openTime     |-> OrText(p.open_time, p.timestamp) ]],
          health |->
              [ vpsReachable      |-> healthSnapshot.vpsReachable,
                totalEndpoints    |-> healthSnapshot.totalEndpoints,
                healthyEndpoints  |-> healthSnapshot.healthyEndpoints,
                degradedEndpoints |-> healthSnapshot.degradedEndpoints,
                avgLatencyMs      |-> healthSnapshot.avgOverallLatencyMs ],
          proxy |->
              [ source    |-> "vps-live",
                auth      |-> "jwt",
                user      |-> authResult.email,
                userId    |-> authResult.userId,
                endpoints |->
                    [i \in 1..Len(results) |->
                        [ path      |-> AGGREGATE_ENDPOINTS[i],
                          success   |-> results[i].success,
                          status    |-> IF results[i].success THEN 200
                                        ELSE OrNum(results[i].status, 0),
                          latencyMs |-> results[i].latencyMs ]] ] ]

---------------------------------------------------------------------------
\* Session events: request parameters, storage queries and export formats

\* a JavaScript number that parseInt can return: an integer n, Num(n), or NaN
NaN == << >>

Num(n) == << n >>

Digits == <<"0", "1", "2", "3", "4", "5", "6", "7", "8", "9">>

IsDigit(ch) == \E d \in 1..10 : Digits[d] = ch

DigitValue(ch) == (CHOOSE d \in 1..10 : Digits[d] = ch) - 1

RECURSIVE ParseDigits(_, _, _)
ParseDigits(chars, i, acc) ==
    IF i > Len(chars) \/ ~IsDigit(chars[i]) THEN acc
    ELSE ParseDigits(chars, i + 1, 10 * acc + DigitValue(chars[i]))

\* parseInt(string): an optional sign, then the longest run of decimal digits; NaN
\* when there is no digit.  A string is the sequence of its characters.
parseInt(chars) ==
    LET signed == chars # <<>> /\ chars[1] \in { "-", "+" }
        first  == IF signed THEN 2 ELSE 1
        digits == ParseDigits(chars, first, 0)
    IN  IF first > Len(chars) \/ ~IsDigit(chars[first]) THEN NaN
        ELSE IF signed /\ chars[1] = "-" THEN Num(0 - digits)
        ELSE Num(digits)

\* c.req.query(name) || fallback: the fallback replaces an absent or empty parameter
OrDefault(param, fallback) == IF param = <<>> THEN fallback ELSE param

\* Math.min(a, b)
MathMin(a, b) == IF a = NaN \/ b = NaN THEN NaN ELSE IF a[1] < b[1] THEN a ELSE b

\* const limit = Math.min(parseInt(c.req.query("limit") || "50"), 200)
EffectiveLimit(limitParam) ==
    MathMin(parseInt(OrDefault(limitParam, <<"5", "0">>)), Num(200))

\* const offset = parseInt(c.req.query("offset") || "0")
EffectiveOffset(offsetParam) == parseInt(OrDefault(offsetParam, <<"0">>))

\* the rows with .eq("user_id", userId) and, when asked for, .eq("session_id", sessionId)
RowsOf(table, userId, sessionId) ==
    LET Matches(row) ==
            /\ row.user_id = userId
            /\ sessionId # "" => row.session_id = sessionId
    IN  SelectSeq(table, Matches)

\* .order("timestamp_utc", { ascending })
RECURSIVE OrderByTimestamp(_, _)
OrderByTimestamp(rows, ascending) ==
    IF rows = <<>> THEN <<>>
    ELSE LET k == CHOOSE i \in DOMAIN rows :
                     \A j \in DOMAIN rows :
                         IF ascending
                         THEN rows[i].timestamp_utc <= rows[j].timestamp_utc
                         ELSE rows[i].timestamp_utc >= rows[j].timestamp_utc
             rest == [j \in 1..(Len(rows) - 1) |-> IF j < k THEN rows[j] ELSE rows[j + 1]]
         IN  <<rows[k]>> \o OrderByTimestamp(rest, ascending)

Ok(data) == [error |-> FALSE, data |-> data]
Failed == [error |-> TRUE, data |-> <<>>]

\* .range(from, to) applied to the ordered rows: the rows at positions from..to,
\* counted from 0.  A bound that is NaN is sent as such; the backend may refuse it or
\* apply no bound (`lenient`).  A range of negative length is refused.
Range(rows, from, to, lenient) ==
    IF from = NaN \/ to = NaN
    THEN IF lenient THEN Ok(rows) ELSE Failed
    ELSE IF from[1] < 0 \/ to[1] < from[1] - 1 THEN Failed
    ELSE Ok(SubSeq(rows, from[1] + 1,
                   IF to[1] + 1 < Len(rows) THEN to[1] + 1 ELSE Len(rows)))

\* a + b
Plus(a, b) == IF a = NaN \/ b = NaN THEN NaN ELSE Num(a[1] + b[1])

\* .order("timestamp_utc", { ascending: false }) of /v1/sessions/events
ListingOrder == FALSE

\* the export is ordered newest-first
ExportOrder_descending == FALSE

\* .order("timestamp_utc", { ascending: true }) of /v1/sessions/export
ExportOrder == TRUE

\* the query of /v1/sessions/events (part_001:765-776)
EventsQuery(table, userId, query, lenient) ==
    LET limit  == EffectiveLimit(query.limit)
        offset == EffectiveOffset(query.offset)
    IN  Range(OrderByTimestamp(RowsOf(table, userId, query.session_id), ListingOrder),
              offset, Plus(Plus(offset, limit), Num(0 - 1)), lenient)

\* the query of /v1/sessions/export (part_001:833-838)
ExportQuery(table, userId, query) ==
    Ok(OrderByTimestamp(RowsOf(table, userId, query.session_id), ExportOrder))

\* the characters of the strings the export writes
CharsOf(s) ==
    CASE s = "s1" ->
             <<"s", "1">>
      [] s = "s\"2" ->
             <<"s", "\"", "2">>
      [] s = "metrics_fetch" ->
             <<"m", "e", "t", "r", "i", "c", "s", "_", "f", "e", "t", "c", "h">>
      [] s = "systemState" ->
             <<"s", "y", "s", "t", "e", "m", "S", "t", "a", "t", "e">>
      [] s = "NOMINAL" ->
             <<"N", "O", "M", "I", "N", "A", "L">>
      [] s = "id" ->
             <<"i", "d">>
      [] s = "session_id" ->
             <<"s", "e", "s", "s", "i", "o", "n", "_", "i", "d">>
      [] s = "event_type" ->
             <<"e", "v", "e", "n", "t", "_", "t", "y", "p", "e">>
      [] s = "timestamp_utc" ->
             <<"t", "i", "m", "e", "s", "t", "a", "m", "p", "_", "u", "t", "c">>
      [] s = "event_payload" ->
             <<"e", "v", "e", "n", "t", "_", "p", "a", "y", "l", "o", "a", "d">>
      [] s = "No events found" ->
             <<"N", "o", " ", "e", "v", "e", "n", "t", "s", " ", "f", "o", "u", "n", "d">>

RECURSIVE NatChars(_)
NatChars(n) ==
    IF n < 10 THEN <<Digits[n + 1]>>
    ELSE NatChars(n \div 10) \o <<Digits[(n % 10) + 1]>>

RECURSIVE JoinWith(_, _)
JoinWith(parts, sep) ==
    IF parts = <<>> THEN <<>>
    ELSE IF Len(parts) = 1 THEN parts[1]
    ELSE parts[1] \o sep \o JoinWith(Tail(parts), sep)

\* the keys of an object, in a fixed order
RECURSIVE KeysOf(_)
KeysOf(keys) ==
    IF keys = {} THEN <<>>
    ELSE LET k == CHOOSE x \in keys : TRUE IN <<k>> \o KeysOf(keys \ {k})

\* JSON.stringify of an event payload: an object of string members
JsonStringify(payload) ==
    LET keys == KeysOf(DOMAIN payload)
        Member(k) == <<"\"">> \o CharsOf(k) \o <<"\"", ":", "\"">> \o CharsOf(payload[k])
                         \o <<"\"">>
    IN  <<"{">> \o JoinWith([i \in 1..Len(keys) |-> Member(keys[i])], <<",">>) \o <<"}">>

\* .replace(/"/g, '""')
RECURSIVE DoubleQuotes(_)
DoubleQuotes(chars) ==
    IF chars = <<>> THEN <<>>
    ELSE (IF Head(chars) = "\"" THEN <<"\"", "\"">> ELSE <<Head(chars)>>)
             \o DoubleQuotes(Tail(chars))

\* "id,session_id,event_type,timestamp_utc,event_payload\n"
CsvHeader ==
    JoinWith(<< CharsOf("id"), CharsOf("session_id"), CharsOf("event_type"),
                CharsOf("timestamp_utc"), CharsOf("event_payload") >>, <<",">>)
        \o <<"\n">>

\* one row of the csv export (part_001:853-855): the session id, the type and the
\* time stamp are wrapped in quotes as they are; only the payload has its quotes doubled
CsvRow(e) ==
    NatChars(e.id)
        \o <<",", "\"">> \o CharsOf(e.session_id)
        \o <<"\"", ",", "\"">> \o CharsOf(e.event_type)
        \o <<"\"", ",", "\"">> \o NatChars(e.timestamp_utc)
        \o <<"\"", ",", "\"">> \o DoubleQuotes(JsonStringify(e.event_payload))
        \o <<"\"">>

\* header + rows.join("\n")
ExportCsv(events) ==
    CsvHeader \o JoinWith([i \in 1..Len(events) |-> CsvRow(events[i])], <<"\n">>)

\* `[${timestamp_utc}] ${event_type}: ${JSON.stringify(event_payload)}`
TextLine(e) ==
    <<"[">> \o NatChars(e.timestamp_utc) \o <<"]", " ">> \o CharsOf(e.event_type)
        \o <<":", " ">> \o JsonStringify(e.event_payload)

\* lines.join("\n") || "No events found"
ExportText(events) ==
    LET lines == JoinWith([i \in 1..Len(events) |-> TextLine(events[i])], <<"\n">>)
    IN  IF lines = <<>> THEN CharsOf("No events found") ELSE lines

---------------------------------------------------------------------------
\* Requests

\* the two routes that run fetchAndAggregateMetrics
Routes == { "aggregate", "dashboard" }
SessionIds == { "", "s1" }

\* the two routes that read table session_events: /v1/sessions/events and
\* /v1/sessions/export
SessionRoutes == { "events", "export" }

\* routes behind the /metrics-proxy-jwt/v1/* middleware: /v1/metrics/aggregate,
\* /v1/health/detailed, /v1/sessions/events and /v1/sessions/export
IsV1(route) == route \in { "aggregate", "health" } \cup SessionRoutes

ALLOWED_PATHS ==
    { "/health", "/brokers/status", "/trades/live", "/trades/history",
      "/strategies/proving", "/strategies/promotions", "/metrics/gate-pressure" }

\* values of the `path` query parameter of /proxy ("" when it is not given)
ProxyPaths == { "", "/admin/keys", "/healthz", "/brokers/status", "/trades/history/2024" }

\* a path as its "/" characters and the runs of other characters between them
PathTokens(path) ==
    CASE path = ""                       -> << >>
      [] path = "/admin/keys"            -> << "/", "admin", "/", "keys" >>
      [] path = "/healthz"               -> << "/", "healthz" >>
      [] path = "/health"                -> << "/", "health" >>
      [] path = "/brokers/status"        -> << "/", "brokers", "/", "status" >>
      [] path = "/trades/live"           -> << "/", "trades", "/", "live" >>
      [] path = "/trades/history"        -> << "/", "trades", "/", "history" >>
      [] path = "/trades/history/2024"   -> << "/", "trades", "/", "history", "/", "2024" >>
      [] path = "/strategies/proving"    -> << "/", "strategies", "/", "proving" >>
      [] path = "/strategies/promotions" -> << "/", "strategies", "/", "promotions" >>
      [] path = "/metrics/gate-pressure" -> << "/", "metrics", "/", "gate-pressure" >>
      [] path = "/docs"                  -> << "/", "docs" >>
      [] path = "/redoc"                 -> << "/", "redoc" >>
      [] path = "/docs/index"            -> << "/", "docs", "/", "index" >>

\* s.startsWith(prefix) for a prefix that ends with "/"
StartsWith(s, prefix) ==
    Len(prefix) <= Len(s) /\ SubSeq(s, 1, Len(prefix)) = prefix

\* the whitelisted paths p for which path.startsWith(p + "/")
PrefixesOf(path) ==
    { p \in ALLOWED_PATHS : StartsWith(PathTokens(path), PathTokens(p) \o << "/" >>) }

\* only the empty path refused
IsAllowedPath_nonEmpty(path) == path # ""

\* path && ALLOWED_PATHS.some((p) => path === p || path.startsWith(p + "/"))
IsAllowedPath(path) ==
    /\ path # ""
    /\ \E p \in ALLOWED_PATHS : path = p \/ p \in PrefixesOf(path)

NoResponse == [status |-> 0, error |-> "", message |-> "", hint |-> FALSE, headers |-> {}]

\* c.json(body, status) with the headers set on the context so far
Respond(status, error, message, hint, headers) ==
    [status |-> status, error |-> error, message |-> message, hint |-> hint,
     headers |-> headers]

\* the query parameters of the session routes, "" or <<>> when not given
NoQuery == [session_id |-> "", limit |-> <<>>, offset |-> <<>>, format |-> ""]

IdleCall ==
    [ pc         |-> "idle",
      route      |-> "",
      path       |-> "",
      authHeader |-> "",
      sessionId  |-> "",
      query      |-> NoQuery,
      at         |-> 0,
      authResult |-> NoAuth,
      results    |-> [e \in EndpointSet |-> NoResult],
      payload    |-> <<>>,
      body       |-> <<>>,
      response   |-> NoResponse ]

\* headers set by the /v1/* middleware once the credential is verified (part_001:661-670)
RateLimitHeaders ==
    { "X-RateLimit-Limit", "X-RateLimit-Remaining", "X-RateLimit-Reset", "X-API-Version" }

\* headers set by the legacy /dashboard handler before it returns the payload
DeprecationHeaders == { "Deprecation", "Sunset", "Link" }

\* headers a response of the route carries when the handler got past verification
BaseHeaders(route) == IF IsV1(route) THEN RateLimitHeaders ELSE {}

\* the error label of the handler's catch block
CatchLabel(route) ==
    CASE route = "aggregate" -> "Aggregation error"
      [] route = "health"    -> "Health check error"
      [] route = "proxy"     -> "Proxy error"
      [] OTHER               -> "Dashboard proxy error"

\* results of Promise.all(fetchPromises): one per configured endpoint, in configured order
ResultsOf(c) == [i \in 1..Len(AGGREGATE_ENDPOINTS) |-> call[c].results[AGGREGATE_ENDPOINTS[i]]]

\* Promise.all resolves once every fan-out promise has resolved
AllSettled_any(c) == \E e \in EndpointSet : call[c].results[e].state = "settled"

AllSettled(c) == \A e \in EndpointSet : call[c].results[e].state = "settled"

\* the upstream base is taken as configured whatever the environment holds
UpstreamConfigured_always(cfg) == TRUE

\* if (!VPS_METRICS_ENDPOINT) return 503
UpstreamConfigured(cfg) == cfg.VPS_METRICS_ENDPOINT # ""

\* every credential passes
Authorized_always(authResult) == TRUE

\* if (!authResult.valid) return 401
Authorized(authResult) == authResult.valid

\* a request arrives on /v1/metrics/aggregate, /v1/health/detailed or /dashboard; the
\* middleware or handler runs up to await verifySupabaseJWT(authHeader).  Request ids
\* are handed out in order.
Request(c, route, authHeader, sessionId) ==
    /\ call[c].pc = "idle"
    /\ \A d \in CallIds : d < c => call[d].pc # "idle"
    /\ call' = [call EXCEPT ![c] =
                   [IdleCall EXCEPT !.pc = "verifying", !.route = route, !.at = wallClock,
                                    !.authHeader = authHeader, !.sessionId = sessionId]]
    /\ UNCHANGED <<config, healthState, recorded, obs, sessionInserts, steps, wallClock, minted, sent, gate,
                   sessionEvents, console, hook>>

\* a request arrives on /proxy?path=...: a path outside the whitelist is answered 400
\* at once, else the handler runs up to await verifySupabaseJWT(authHeader)
ProxyRequest(c, path, authHeader) ==
    /\ call[c].pc = "idle"
    /\ \A d \in CallIds : d < c => call[d].pc # "idle"
    /\ call' = [call EXCEPT ![c] =
          IF ~IsAllowedPath(path)
          THEN [IdleCall EXCEPT !.pc = "done", !.route = "proxy", !.path = path,
                                !.at = wallClock, !.authHeader = authHeader,
                                !.response = Respond(400, "Invalid path", "", FALSE, {})]
          ELSE [IdleCall EXCEPT !.pc = "verifying", !.route = "proxy", !.path = path,
                                !.at = wallClock, !.authHeader = authHeader]]
    /\ UNCHANGED <<config, healthState, recorded, obs, sessionInserts, steps, wallClock, minted, sent, gate,
                   sessionEvents, console, hook>>

\* taking a snapshot creates the entry of every configured endpoint
HealthAfterSnapshot_init(h) ==
    [e \in EndpointSet |-> IF e \in DOMAIN h THEN h[e] ELSE initEndpointHealth(e)]

\* the health map once getHealthSnapshot() has returned: the function only iterates
\* over healthState and reads the entries (part_001:203-241)
HealthAfterSnapshot(h) == h

\* a request arrives on /v1/sessions/events or /v1/sessions/export; the /v1/*
\* middleware runs up to await verifySupabaseJWT(authHeader)
SessionsRequest(c, route, authHeader, query) ==
    /\ call[c].pc = "idle"
    /\ \A d \in CallIds : d < c => call[d].pc # "idle"
    /\ call' = [call EXCEPT ![c] =
                   [IdleCall EXCEPT !.pc = "verifying", !.route = route, !.at = wallClock,
                                    !.authHeader = authHeader, !.query = query]]
    /\ UNCHANGED <<config, healthState, recorded, obs, sessionInserts, steps, wallClock,
                   minted, sent, gate, sessionEvents, console, hook>>

\* verifySupabaseJWT resolves: 401 on an invalid credential (only the /v1/* middleware
\* adds a hint).  /v1/health/detailed then answers with the snapshot.  The session
\* routes answer 400 (export without session_id) or 503 (no storage client), else run
\* up to the await of their query.  The relaying
\* routes answer 503 when no upstream base is configured, else run up to
\* await createInternalJWT(...)
VerifyDone(c) ==
    LET authResult == verifySupabaseJWT(call[c].authHeader)
        route      == call[c].route
    IN  /\ call[c].pc = "verifying"
        /\ call' = [call EXCEPT ![c] =
              IF ~Authorized(authResult)
              THEN [@ EXCEPT !.pc = "done", !.authResult = authResult,
                             !.response = Respond(401, "Unauthorized", authResult.error,
                                                  IsV1(route), {})]
              ELSE IF route = "health"
              THEN [@ EXCEPT !.pc = "done", !.authResult = authResult,
                             !.response = Respond(200, "", "", FALSE, BaseHeaders(route))]
              ELSE IF route = "export" /\ call[c].query.session_id = ""
              THEN [@ EXCEPT !.pc = "done", !.authResult = authResult,
                             !.response = Respond(400, "session_id query parameter is required",
                                                  "", FALSE, BaseHeaders(route))]
              ELSE IF route \in SessionRoutes
              THEN IF getServiceClient(config)
                   THEN [@ EXCEPT !.pc = "querying", !.authResult = authResult]
                   ELSE [@ EXCEPT !.pc = "done", !.authResult = authResult,
                                  !.response = Respond(503, "Session recording not configured",
                                                       "", FALSE, BaseHeaders(route))]
              ELSE IF ~UpstreamConfigured(config)
              THEN [@ EXCEPT !.pc = "done", !.authResult = authResult,
                             !.response = Respond(503, "VPS endpoint not configured", "",
                                                  FALSE, BaseHeaders(route))]
              ELSE [@ EXCEPT !.pc = "minting", !.authResult = authResult]]
        /\ healthState' = IF Authorized(authResult) /\ route = "health"
                          THEN HealthAfterSnapshot(healthState)
                          ELSE healthState
        /\ UNCHANGED <<config, recorded, obs, sessionInserts, steps, wallClock, minted, sent,
                       gate, sessionEvents, console, hook>>

\* the body of /v1/sessions/events (part_001:786-799)
EventsBody(query, data) ==
    [ kind       |-> "list",
      events     |-> data,
      eventCount |-> Len(data),
      text       |-> <<>>,
      limit      |-> EffectiveLimit(query.limit),
      offset     |-> EffectiveOffset(query.offset),
      hasMore    |-> Num(Len(data)) = EffectiveLimit(query.limit) ]

\* the body of /v1/sessions/export in the format asked for (part_001:846-887); json is
\* the default
ExportBody(query, events) ==
    CASE query.format = "csv" ->
            [ kind |-> "csv", events |-> <<>>, eventCount |-> 0,
              text |-> ExportCsv(events), limit |-> NaN, offset |-> NaN, hasMore |-> FALSE ]
      [] query.format = "text" ->
            [ kind |-> "text", events |-> <<>>, eventCount |-> 0,
              text |-> ExportText(events), limit |-> NaN, offset |-> NaN, hasMore |-> FALSE ]
      [] OTHER ->
            [ kind |-> "json", events |-> events, eventCount |-> Len(events),
              text |-> <<>>, limit |-> NaN, offset |-> NaN, hasMore |-> FALSE ]

\* headers of `new Response(text, { headers })`
AttachmentHeaders == { "Content-Type", "Content-Disposition" }

\* the awaited query of a session route settles: the backend answers (`answers`) or
\* fails; an error result is turned into a 500, rows into the body of the route
QuerySettles(c, answers, lenient) ==
    LET route  == call[c].route
        query  == call[c].query
        userId == call[c].authResult.userId
        result == IF ~answers THEN Failed
                  ELSE IF route = "events"
                  THEN EventsQuery(sessionEvents, userId, query, lenient)
                  ELSE ExportQuery(sessionEvents, userId, query)
    IN  /\ call[c].pc = "querying"
        /\ call' = [call EXCEPT ![c] =
              IF result.error
              THEN [@ EXCEPT !.pc = "done",
                             !.response =
                                 Respond(500,
                                         IF route = "events"
                                         THEN "Failed to fetch session events"
                                         ELSE "Export failed",
                                         "error", FALSE, BaseHeaders(route))]
              ELSE IF route = "events"
              THEN [@ EXCEPT !.pc = "done",
                             !.body = << EventsBody(query, result.data) >>,
                             !.response = Respond(200, "", "", FALSE, BaseHeaders(route))]
              ELSE [@ EXCEPT !.pc = "done",
                             !.body = << ExportBody(query, result.data) >>,
                             !.response =
                                 Respond(200, "", "", FALSE,
                                         IF query.format \in { "csv", "text" }
                                         THEN AttachmentHeaders
                                         ELSE BaseHeaders(route))]]
        /\ UNCHANGED <<config, healthState, recorded, obs, sessionInserts, steps, wallClock,
                       minted, sent, gate, sessionEvents, console, hook>>

\* the requests carry the token of the process's first second, not the call's own
RequestsOf_cached(c, internalJWT) ==
    LET cached == [internalJWT EXCEPT !.iat = 0, !.exp = INTERNAL_JWT_TTL_SECONDS]
    IN  IF call[c].route = "proxy"
        THEN << UpstreamRequest(call[c].path, cached, call[c].authResult) >>
        ELSE [i \in 1..Len(AGGREGATE_ENDPOINTS) |->
                 UpstreamRequest(AGGREGATE_ENDPOINTS[i], cached, call[c].authResult)]

\* the upstream requests a call issues once it holds its token: the five fan-out
\* fetches of the aggregator, in configured order, or the one fetch of /proxy
RequestsOf(c, internalJWT) ==
    IF call[c].route = "proxy"
    THEN << UpstreamRequest(call[c].path, internalJWT, call[c].authResult) >>
    ELSE [i \in 1..Len(AGGREGATE_ENDPOINTS) |->
             UpstreamRequest(AGGREGATE_ENDPOINTS[i], internalJWT, call[c].authResult)]

\* createInternalJWT settles.  With an empty INTERNAL_JWT_SECRET the HS256 key import
\* rejects and the handler's catch block answers 500.  Otherwise the call holds its
\* token and issues its upstream requests in one go: the aggregator waits on
\* Promise.all, /proxy on its single fetch.
MintDone(c) ==
    LET authResult  == call[c].authResult
        internalJWT == createInternalJWT(config.INTERNAL_JWT_SECRET, authResult.userId,
                                         authResult.email, authResult.role,
                                         wallClock, wallClock)
    IN  /\ call[c].pc = "minting"
        /\ IF config.INTERNAL_JWT_SECRET = ""
           THEN /\ call' = [call EXCEPT ![c] =
                      [@ EXCEPT !.pc = "done",
                                !.response = Respond(500, CatchLabel(call[c].route), "error",
                                                     FALSE, BaseHeaders(call[c].route))]]
                /\ UNCHANGED <<minted, sent>>
           ELSE /\ call' = [call EXCEPT ![c] =
                      IF call[c].route = "proxy"
                      THEN [@ EXCEPT !.pc = "proxying"]
                      ELSE [@ EXCEPT !.pc = "fetching",
                                     !.results = [e \in EndpointSet |-> PendingResult]]]
                /\ minted' = [minted EXCEPT ![c] = Append(@, internalJWT)]
                /\ sent' = [sent EXCEPT ![c] = @ \o RequestsOf(c, internalJWT)]
        /\ UNCHANGED <<config, healthState, recorded, obs, sessionInserts, steps, wallClock, gate,
                       sessionEvents, console, hook>>

\* one upstream request of call c ends with `outcome` after latencyMs: the rest of the
\* async callback runs (res.json() changes no state of the process, so its await is
\* folded into this step): recordEndpointResult and the returned EndpointResult
FetchSettles(c, endpoint, outcome, latencyMs) ==
    /\ call[c].pc = "fetching"
    /\ call[c].results[endpoint].state = "pending"
    /\ healthState' = ApplyRecords(healthState, endpoint, FetchRecords(outcome), latencyMs)
    /\ recorded' = [recorded EXCEPT ![c][endpoint] = @ \o FetchRecords(outcome)]
    /\ obs' = [obs EXCEPT ![endpoint] = @ \o ObsOf(FetchRecords(outcome), latencyMs)]
    /\ call' = [call EXCEPT ![c].results[endpoint] = EndpointResultOf(outcome, latencyMs)]
    /\ UNCHANGED <<config, sessionInserts, steps, wallClock, minted, sent, gate,
                   sessionEvents, console, hook>>

\* the fetch of /proxy ends: a 2xx body is returned with a _proxy stamp, a non-2xx
\* status is passed on, a rejected fetch or an unparsable body goes to the catch
\* block.  The handler touches nothing but its response.
ProxySettles(c, outcome) ==
    /\ call[c].pc = "proxying"
    /\ call' = [call EXCEPT ![c] =
          [@ EXCEPT !.pc = "done",
                    !.response =
                        CASE outcome.kind = "ok"   -> Respond(200, "", "", FALSE, {})
                          [] outcome.kind = "http" ->
                                Respond(outcome.status, "VPS request failed", "", FALSE, {})
                          [] OTHER -> Respond(500, CatchLabel("proxy"), "error", FALSE, {})]]
    /\ UNCHANGED <<config, healthState, recorded, obs, sessionInserts, steps, wallClock, minted, sent, gate,
                   sessionEvents, console, hook>>

\* an insert is dispatched whatever the session id and the backend configuration
SessionDispatch_always(cfg, sessionId, authResult, payload, results) ==
    << [ session_id |-> sessionId,
         user_id    |-> authResult.userId,
         event_type |-> "metrics_fetch",
         event_payload |->
             [ systemState   |-> payload.systemVerdict.state,
               endpointCount |-> Len(results),
               successCount  |->
                   Cardinality({i \in 1..Len(results) : results[i].success}) ],
         state      |-> "pending" ] >>

\* recordSessionEvent(sessionId, userId, "metrics_fetch", {...}) as called at
\* part_001:579-586: the inserts dispatched (none, or one)
SessionDispatch(cfg, sessionId, authResult, payload, results) ==
    IF sessionId # "" /\ authResult.userId # "" /\ getServiceClient(cfg)
    THEN << [ session_id |-> sessionId,
              user_id    |-> authResult.userId,
              event_type |-> "metrics_fetch",
              event_payload |->
                  [ systemState   |-> payload.systemVerdict.state,
                    endpointCount |-> Len(results),
                    successCount  |->
                        Cardinality({i \in 1..Len(results) : results[i].success}) ],
              state      |-> "pending" ] >>
    ELSE << >>

\* the aggregator waits for the inserts it dispatched before it returns
AfterDispatch_awaitInsert(inserts) == IF inserts = <<>> THEN "done" ELSE "recording"

\* recordSessionEvent returns void and the aggregator goes on to `return` without
\* awaiting anything (part_001:579-588): the handler answers in the same step
AfterDispatch(inserts) == "done"

\* Promise.all resolved: the merge, the embedded health snapshot, the session dispatch
\* and the handler's response.  A TypeError of the merge is caught by the handler.
Merge(c) ==
    LET results == ResultsOf(c)
        route   == call[c].route
        payload == BuildPayload(call[c].authResult, results, GetHealthSnapshot(healthState))
        inserts == SessionDispatch(config, call[c].sessionId, call[c].authResult,
                                   payload, results)
    IN  /\ call[c].pc = "fetching"
        /\ AllSettled(c)
        /\ IF MergeThrows(results)
           THEN /\ call' = [call EXCEPT ![c] =
                      [@ EXCEPT !.pc = "done",
                                !.response = Respond(500, CatchLabel(route), "error", FALSE,
                                                     BaseHeaders(route))]]
                /\ UNCHANGED sessionInserts
           ELSE /\ call' = [call EXCEPT ![c] =
                      [@ EXCEPT !.pc = AfterDispatch(inserts),
                                !.payload = <<payload>>,
                                !.response =
                                    Respond(200, "", "", FALSE,
                                            IF route = "dashboard"
                                            THEN DeprecationHeaders
                                            ELSE BaseHeaders(route))]]
                /\ sessionInserts' = sessionInserts \o inserts
        /\ healthState' = IF MergeThrows(results) THEN healthState
                          ELSE HealthAfterSnapshot(healthState)
        /\ UNCHANGED <<config, recorded, obs, steps, wallClock, minted, sent, gate,
                       sessionEvents, console, hook>>

\* the row session_events gets from an insert: id is the identity column and
\* timestamp_utc the database's NOW() (001_session_events.sql:7-12)
StoredRow(insert, table) ==
    [ id            |-> Len(table) + 1,
      session_id    |-> insert.session_id,
      user_id       |-> insert.user_id,
      event_type    |-> insert.event_type,
      event_payload |-> insert.event_payload,
      timestamp_utc |-> Len(table) + 1 ]

\* what the insert promise of recordSessionEvent can do once dispatched: resolve
\* with no error, resolve with an error result, or reject
InsertOutcomes == { "stored", "error", "rejected" }

SessionLogLine == "[Session] Failed to record event"

\* the lines the fulfilment handler of part_001:277-282 writes.  The promise has
\* no rejection handler: a rejected insert runs no code of the recorder.
InsertHandler(outcome) ==
    IF outcome = "error" THEN << SessionLogLine >> ELSE << >>

\* the insert dispatched by recordSessionEvent settles (part_001:270-282)
InsertSettles(i, outcome) ==
    /\ i \in DOMAIN sessionInserts
    /\ sessionInserts[i].state = "pending"
    /\ sessionInserts' = [sessionInserts EXCEPT ![i].state = outcome]
    /\ sessionEvents' = IF outcome = "stored"
                        THEN Append(sessionEvents, StoredRow(sessionInserts[i], sessionEvents))
                        ELSE sessionEvents
    /\ console' = console \o InsertHandler(outcome)
    /\ UNCHANGED <<config, healthState, call, recorded, obs, steps, wallClock, minted, sent,
                   gate, hook>>

---------------------------------------------------------------------------
\* Spec: a fresh process serving one request, with every input the handlers read

EmptyHealth_eager == [e \in EndpointSet |-> initEndpointHealth(e)]

\* new Map<string, EndpointHealthEntry>()
EmptyHealth == [e \in {} |-> initEndpointHealth(e)]

\* no token minted, no upstream request issued, the VPS side idle, the clock at 0
RelayIdle ==
    /\ wallClock = 0
    /\ minted = [c \in CallIds |-> <<>>]
    /\ sent = [c \in CallIds |-> <<>>]
    /\ gate = IdleGate

FreshState ==
    /\ healthState = EmptyHealth
    /\ call = [c \in CallIds |-> IdleCall]
    /\ recorded = [c \in CallIds |-> [e \in EndpointSet |-> <<>>]]
    /\ obs = [e \in EndpointSet |-> <<>>]
    /\ sessionInserts = <<>>
    /\ sessionEvents = <<>>
    /\ console = <<>>
    /\ hook = NoHook
    /\ steps = 0
    /\ RelayIdle

Init ==
    /\ config \in Configs
    /\ FreshState

ProxyOutcomes == { OkOutcome(BrokerUp), HttpOutcome, ThrowOutcome, BadJsonOutcome }

Next ==
    \E c \in {1} :
        \/ \E route \in Routes \cup { "health" }, authHeader \in AuthHeaders,
                 sessionId \in SessionIds :
              Request(c, route, authHeader, sessionId)
        \/ \E path \in ProxyPaths, authHeader \in AuthHeaders :
              ProxyRequest(c, path, authHeader)
        \/ VerifyDone(c)
        \/ MintDone(c)
        \/ \E e \in EndpointSet : \E outcome \in OutcomesOf(e), latencyMs \in Latencies :
              FetchSettles(c, e, outcome, latencyMs)
        \/ \E outcome \in ProxyOutcomes : ProxySettles(c, outcome)
        \/ Merge(c)
        \/ \E outcome \in InsertOutcomes : InsertSettles(c, outcome)

Spec == Init /\ [][Next]_vars

---------------------------------------------------------------------------
\* FairSpec: Spec with the event loop's guarantee that a continuation that is ready to
\* run does run.  The upstream's answer (FetchSettles) is the network's step, not the
\* program's: nothing in the code makes it happen.

FairSpec ==
    /\ Spec
    /\ \A c \in {1} :
          /\ WF_vars(VerifyDone(c))
          /\ WF_vars(MintDone(c))
          /\ WF_vars(Merge(c))

---------------------------------------------------------------------------
\* ConcSpec: a fresh, fully configured process serving MaxCalls overlapping
\* aggregations; every upstream request either succeeds or throws

NominalBody(endpoint) ==
    CASE endpoint = "/brokers/status"        -> BrokerUp
      [] endpoint = "/trades/live"           -> TradesTwo
      [] endpoint = "/strategies/proving"    -> ProvingBusy
      [] endpoint = "/strategies/promotions" -> PromotionsSome
      [] endpoint = "/metrics/gate-pressure" -> GateSome

ConcOutcomes(endpoint) == { OkOutcome(NominalBody(endpoint)), ThrowOutcome }

ConcInit ==
    /\ config = FullConfig
    /\ FreshState

ConcNext ==
    \E c \in CallIds :
        \/ Request(c, "aggregate", "Bearer good", "")
        \/ VerifyDone(c)
        \/ MintDone(c)
        \/ \E e \in EndpointSet : \E outcome \in ConcOutcomes(e), latencyMs \in Latencies :
              FetchSettles(c, e, outcome, latencyMs)
        \/ Merge(c)

ConcSpec == ConcInit /\ [][ConcNext]_vars

---------------------------------------------------------------------------
\* Replaying a recorded history into the health monitor

RECURSIVE Replay(_, _, _)
Replay(h, endpoint, history) ==
    IF history = <<>> THEN h
    ELSE Replay(RecordEndpointResult(h, endpoint, Head(history).success,
                                     Head(history).latencyMs),
                endpoint, Tail(history))

\* the health map after each endpoint's history was recorded (recordEndpointResult
\* touches the entry of its own endpoint only, so the endpoints replay independently)
HealthOf(histories) ==
    [e \in {x \in EndpointSet : histories[x] # <<>>} |->
        Replay(EmptyHealth, e, histories[e])[e]]

---------------------------------------------------------------------------
\* HistSpec: a fully configured process that has already served n aggregations whose
\* five upstream calls all succeeded, n in 0..MaxPrior, and now serves one more

PriorObs(n) ==
    [e \in EndpointSet |->
        [i \in 1..n |-> [success |-> TRUE, latencyMs |-> CHOOSE l \in Latencies : TRUE]]]

HistOutcomes(endpoint) ==
    { OkOutcome(NominalBody(endpoint)), HttpOutcome, ThrowOutcome }

HistInit ==
    /\ config = FullConfig
    /\ call = [c \in CallIds |-> IdleCall]
    /\ recorded = [c \in CallIds |-> [e \in EndpointSet |-> <<>>]]
    /\ sessionInserts = <<>>
    /\ sessionEvents = <<>>
    /\ console = <<>>
    /\ hook = NoHook
    /\ steps = 0
    /\ RelayIdle
    /\ \E n \in 0..MaxPrior :
          /\ obs = PriorObs(n)
          /\ healthState = HealthOf(PriorObs(n))

HistNext ==
    \E c \in {1} :
        \/ \E route \in Routes \cup { "health" } : Request(c, route, "Bearer good", "")
        \/ VerifyDone(c)
        \/ MintDone(c)
        \/ \E e \in EndpointSet : \E outcome \in HistOutcomes(e), latencyMs \in Latencies :
              FetchSettles(c, e, outcome, latencyMs)
        \/ Merge(c)

HistSpec == HistInit /\ [][HistNext]_vars

---------------------------------------------------------------------------
\* HealthSpec: the health monitor on its own.  One endpoint has already seen s0
\* successes followed by f0 failures; recordEndpointResult is then applied directly,
\* up to MaxSteps times, with any flag and latency.

HealthEndpoints == { AGGREGATE_ENDPOINTS[1], AGGREGATE_ENDPOINTS[2] }
HealthLatencies == { 1, 2, 3 }

PreHistory(s0, f0) ==
    [i \in 1..(s0 + f0) |-> [success |-> i <= s0, latencyMs |-> (i % 3) + 1]]

HealthInit ==
    /\ config = FullConfig
    /\ call = [c \in CallIds |-> IdleCall]
    /\ recorded = [c \in CallIds |-> [e \in EndpointSet |-> <<>>]]
    /\ sessionInserts = <<>>
    /\ sessionEvents = <<>>
    /\ console = <<>>
    /\ hook = NoHook
    /\ steps = 0
    /\ RelayIdle
    /\ \E s0 \in 0..MaxPreSuccess, f0 \in 0..MaxPreFailure :
          /\ obs = [e \in EndpointSet |->
                       IF e = AGGREGATE_ENDPOINTS[1] THEN PreHistory(s0, f0) ELSE <<>>]
          /\ healthState = HealthOf(obs)

RecordStep(endpoint, success, latencyMs) ==
    /\ steps < MaxSteps
    /\ steps' = steps + 1
    /\ healthState' = RecordEndpointResult(healthState, endpoint, success, latencyMs)
    /\ obs' = [obs EXCEPT ![endpoint] = Append(@, [success |-> success, latencyMs |-> latencyMs])]
    /\ UNCHANGED <<config, call, recorded, sessionInserts, wallClock, minted, sent, gate,
                   sessionEvents, console, hook>>

HealthNext ==
    \E e \in HealthEndpoints, success \in BOOLEAN, latencyMs \in HealthLatencies :
        RecordStep(e, success, latencyMs)

HealthSpec == HealthInit /\ [][HealthNext]_vars

---------------------------------------------------------------------------
\* GateSpec: the trust chain end to end.  The relay mints one token for a verified
\* identity; time passes; one request, with any header, arrives at nginx on the VPS.
\* The validator's secret file holds the relay's secret or another one.

GateIdentities ==
    { [userId |-> "u1", email |-> "u1@example.com", role |-> "authenticated"],
      [userId |-> "u2", email |-> "", role |-> "admin"] }

GateSecrets == { FullConfig.INTERNAL_JWT_SECRET, "rotated-secret" }
GatePaths == { "/health", "/health/live", "/brokers/status" }
GateMethods == { "GET", "OPTIONS" }

\* the minted token and the tokens that differ from it in audience, issuer or signing key
TokenVariants(token) ==
    { [token EXCEPT !.aud = a, !.iss = i, !.key = k] :
        a \in { token.aud, "other-audience", NoClaim },
        i \in { token.iss, "other-issuer", NoClaim },
        k \in { token.key, "forged-key" } }

GateHeaders ==
    { NoHeader, BasicHeader, MalformedBearer } \cup
    ( IF gate.token = <<>> THEN {}
      ELSE { Bearer(v) : v \in TokenVariants(gate.token[1]) } )

\* the wall clock advances by one second
Tick(limit) ==
    /\ wallClock < limit
    /\ wallClock' = wallClock + 1
    /\ UNCHANGED <<config, healthState, call, recorded, obs, sessionInserts, steps,
                   minted, sent, gate, sessionEvents, console, hook>>

\* createInternalJWT runs for `identity`; the clock advances by `lag` seconds between
\* setIssuedAt() and setExpirationTime()
GateMint(identity, lag) ==
    /\ gate.pc = "idle"
    /\ gate.token = <<>>
    /\ wallClock <= MaxMintAt
    /\ wallClock' = wallClock + lag
    /\ gate' = [gate EXCEPT
                   !.identity = <<identity>>,
                   !.token = <<createInternalJWT(config.INTERNAL_JWT_SECRET,
                                                 identity.userId, identity.email,
                                                 identity.role, wallClock, wallClock + lag)>>]
    /\ UNCHANGED <<config, healthState, call, recorded, obs, sessionInserts, steps,
                   minted, sent, sessionEvents, console, hook>>

\* a request reaches nginx: `location = /health` proxies it as it is; in `location /`
\* the rewrite-phase `if` answers OPTIONS with 204, any other method waits for the
\* auth_request subrequest to /_validate_jwt
NginxRequest(path, method, authorization) ==
    LET request == [path |-> path, method |-> method, authorization |-> authorization]
    IN  /\ gate.pc = "idle"
        /\ gate' =
              IF IsPublicLocation(path)
              THEN [gate EXCEPT !.pc = "done", !.request = request, !.status = 200,
                                !.received = <<ProxiedRequest(request, <<>>)>>]
              ELSE IF method = "OPTIONS"
              THEN [gate EXCEPT !.pc = "done", !.request = request, !.status = 204]
              ELSE [gate EXCEPT !.pc = "validating", !.request = request]
        /\ UNCHANGED <<config, healthState, call, recorded, obs, sessionInserts, steps,
                       wallClock, minted, sent, sessionEvents, console, hook>>

\* the validator answers the subrequest: 2xx lets the request through to the metrics
\* API with the identity headers, 401 ends it with the @error401 response
ValidateDone ==
    LET decision == validate_jwt(gate.request.authorization, gate.secret, wallClock)
    IN  /\ gate.pc = "validating"
        /\ gate' = [gate EXCEPT
                       !.pc = "done",
                       !.decision = <<decision>>,
                       !.status = IF decision.allowed THEN 200 ELSE 401,
                       !.received = IF decision.allowed
                                    THEN <<ProxiedRequest(gate.request, <<decision>>)>>
                                    ELSE <<>>]
        /\ UNCHANGED <<config, healthState, call, recorded, obs, sessionInserts, steps,
                       wallClock, minted, sent, sessionEvents, console, hook>>

GateInit ==
    /\ config = FullConfig
    /\ healthState = EmptyHealth
    /\ call = [c \in CallIds |-> IdleCall]
    /\ recorded = [c \in CallIds |-> [e \in EndpointSet |-> <<>>]]
    /\ obs = [e \in EndpointSet |-> <<>>]
    /\ sessionInserts = <<>>
    /\ sessionEvents = <<>>
    /\ console = <<>>
    /\ hook = NoHook
    /\ steps = 0
    /\ wallClock = 0
    /\ minted = [c \in CallIds |-> <<>>]
    /\ sent = [c \in CallIds |-> <<>>]
    /\ \E secret \in GateSecrets : gate = [IdleGate EXCEPT !.secret = secret]

GateNext ==
    \/ \E identity \in GateIdentities, lag \in 0..MaxClockLag : GateMint(identity, lag)
    \/ (gate.pc # "done" /\ Tick(MaxClock))
    \/ \E path \in GatePaths, method \in GateMethods, authorization \in GateHeaders :
          NginxRequest(path, method, authorization)
    \/ ValidateDone

GateSpec == GateInit /\ [][GateNext]_vars

---------------------------------------------------------------------------
\* RelaySpec: a fully configured process serving MaxCalls overlapping relay calls of
\* one user (aggregations and /proxy calls) while the clock runs; every upstream
\* request succeeds

RelayInit ==
    /\ config = FullConfig
    /\ FreshState

RelayNext ==
    \/ \E c \in CallIds :
          \/ \E route \in Routes : Request(c, route, "Bearer good", "")
          \/ ProxyRequest(c, "/brokers/status", "Bearer good")
          \/ VerifyDone(c)
          \/ MintDone(c)
          \/ \E e \in EndpointSet, latencyMs \in Latencies :
                FetchSettles(c, e, OkOutcome(NominalBody(e)), latencyMs)
          \/ ProxySettles(c, OkOutcome(BrokerUp))
          \/ Merge(c)
    \/ Tick(MaxRelayClock)

RelaySpec == RelayInit /\ [][RelayNext]_vars

---------------------------------------------------------------------------
\* TwinSpec: a fresh process serves a request on one of the two aggregation routes
\* and then the same request (credential, session id, upstream answers) on the
\* other route

TwinRoute(route) == IF route = "aggregate" THEN "dashboard" ELSE "aggregate"

TwinOutcomes(endpoint) ==
    { OkOutcome(NominalBody(endpoint)), HttpOutcome }
        \cup (IF endpoint = "/trades/live" THEN { OkOutcome(TradesMalformed) } ELSE {})

TwinInit ==
    /\ config \in Configs
    /\ FreshState

TwinNext ==
    \/ \E route \in Routes, authHeader \in AuthHeaders, sessionId \in SessionIds :
          Request(1, route, authHeader, sessionId)
    \/ /\ call[1].pc = "done"
       /\ Request(2, TwinRoute(call[1].route), call[1].authHeader, call[1].sessionId)
    \/ \E c \in CallIds : VerifyDone(c)
    \/ \E c \in CallIds : MintDone(c)
    \/ \E e \in EndpointSet : \E outcome \in TwinOutcomes(e), latencyMs \in Latencies :
          FetchSettles(1, e, outcome, latencyMs)
    \/ \E e \in EndpointSet : \E outcome \in TwinOutcomes(e), latencyMs \in Latencies :
          /\ EndpointResultOf(outcome, latencyMs) = call[1].results[e]
          /\ FetchSettles(2, e, outcome, latencyMs)
    \/ \E c \in CallIds : Merge(c)

TwinSpec == TwinInit /\ [][TwinNext]_vars

---------------------------------------------------------------------------
\* SessionSpec: a process whose table session_events holds up to MaxEvents rows of two
\* users serves one request on /v1/sessions/events or /v1/sessions/export

SessionUsers == { "u1", "u2" }

\* session ids as stored from the X-Session-Id header; one holds a double quote
StoredSessionIds == { "s1", "s\"2" }

\* event_payload: the column default '{}' or an object
EmptyPayload == [k \in {} |-> ""]

StoredPayloads == { EmptyPayload, [systemState |-> "NOMINAL"] }

\* what a row holds besides its id and time stamp: any session and payload for the
\* caller u1, one kind of row for the other user
RowKinds ==
    [ session_id : StoredSessionIds, user_id : { "u1" }, event_payload : StoredPayloads ]
        \cup [ session_id : { "s1" }, user_id : SessionUsers \ { "u1" },
               event_payload : { [systemState |-> "NOMINAL"] } ]

\* the ways of handing n distinct time stamps to rows 1..n
StampsOf(n) == { f \in [1..n -> 1..n] : \A i, j \in 1..n : i # j => f[i] # f[j] }

\* the tables of n rows: ids are handed out in insertion order, the time stamps are
\* distinct and in any order
TablesOf(n) ==
    { [i \in 1..n |-> [ id            |-> i,
                        session_id    |-> kinds[i].session_id,
                        user_id       |-> kinds[i].user_id,
                        event_type    |-> "metrics_fetch",
                        event_payload |-> kinds[i].event_payload,
                        timestamp_utc |-> stamps[i] ]] :
          kinds \in [1..n -> RowKinds], stamps \in StampsOf(n) }

\* values of the limit and offset parameters, as the characters of the query string
LimitParams ==
    { <<>>, <<"a", "b", "c">>, <<"0">>, <<"1">>, <<"2">>, <<"2", "0", "1">>, <<"-", "1">> }

OffsetParams == { <<>>, <<"1">> }

ExportFormats == { "", "csv", "text", "xml" }

EventsQueries ==
    [ session_id : { "", "s1" }, limit : LimitParams, offset : OffsetParams, format : { "" } ]

ExportQueries ==
    [ session_id : { "" } \cup StoredSessionIds, limit : { <<>> }, offset : { <<>> },
      format : ExportFormats ]

SessionInit ==
    /\ config \in { FullConfig, [FullConfig EXCEPT !.SUPABASE_SERVICE_ROLE_KEY = ""] }
    /\ healthState = EmptyHealth
    /\ call = [c \in CallIds |-> IdleCall]
    /\ recorded = [c \in CallIds |-> [e \in EndpointSet |-> <<>>]]
    /\ obs = [e \in EndpointSet |-> <<>>]
    /\ sessionInserts = <<>>
    /\ steps = 0
    /\ RelayIdle
    /\ console = <<>>
    /\ hook = NoHook
    /\ \E n \in 0..MaxEvents : sessionEvents \in TablesOf(n)

SessionNext ==
    \E c \in {1} :
        \/ \E authHeader \in { "", "Bearer good" }, query \in EventsQueries :
              SessionsRequest(c, "events", authHeader, query)
        \/ \E authHeader \in { "", "Bearer good" }, query \in ExportQueries :
              SessionsRequest(c, "export", authHeader, query)
        \/ VerifyDone(c)
        \/ \E answers \in BOOLEAN, lenient \in BOOLEAN : QuerySettles(c, answers, lenient)

SessionSpec == SessionInit /\ [][SessionNext]_vars

---------------------------------------------------------------------------
\* HookSpec: the useMetricsJWT hook of one mounted dashboard component
\* (src/hooks/useMetricsJWT.ts) beside the Supabase client it talks to.  A step is one
\* run of the JavaScript event loop: a callback or continuation together with the
\* render and the effects its state updates cause.  refreshInterval and autoStart keep
\* their defaults; mockWhenUnauthenticated takes both values.  What the Supabase client
\* does when asked to sign in or out happens at the call: the session changes and the
\* auth-change event is queued for the listener.

MaxFetches == 4
MaxAuthCalls == 2

NoData      == [kind |-> "null", from |-> 0]
MockData    == [kind |-> "mock", from |-> 0]       \* getMockDashboardData()
LiveData(n) == [kind |-> "live", from |-> n]       \* the payload fetch number n received

\* fetchData() of a render in which auth.authenticated was `authenticated`, up to its
\* first await (useMetricsJWT.ts:74-97)
FetchData(h, authenticated) ==
    LET n == h.started + 1
    IN  IF ~authenticated /\ h.mock
        THEN [h EXCEPT !.started = n, !.applied = Append(@, n), !.data = MockData,
                       !.source = "mock", !.error = "", !.isLoading = FALSE]
        ELSE IF ~authenticated
        THEN [h EXCEPT !.started = n, !.applied = Append(@, n), !.data = NoData,
                       !.source = "error",
                       !.error = "Please sign in to view live metrics",
                       !.isLoading = FALSE]
        ELSE [h EXCEPT !.started = n, !.fetches = @ \cup { [seq |-> n, stage |-> "jwt"] }]

\* the rest of fetchData() once fetchDashboardData() has resolved (useMetricsJWT.ts:99-123)
ApplyResult(h, f, result) ==
    LET done == [h EXCEPT !.fetches = @ \ {f}, !.applied = Append(@, f.seq),
                          !.isLoading = FALSE]
    IN  IF result.error # ""
        THEN IF h.mock
             THEN [done EXCEPT !.error = result.error, !.data = MockData, !.source = "mock"]
             ELSE [done EXCEPT !.error = result.error, !.source = "error"]
        ELSE [done EXCEPT !.data = result.data, !.source = result.source, !.error = ""]

\* setAuth(state) and the effects of the render it causes: when auth.authenticated
\* changed, fetchData is a new callback, the fetch effect calls it and the interval
\* effect replaces the timer (useMetricsJWT.ts:185-197)
SetAuth(h, state) ==
    IF state = h.auth THEN h ELSE FetchData([h EXCEPT !.auth = state], state)

\* the hook after the first render and its effects: the listener is subscribed,
\* getAuthState() is pending and fetchData() ran with auth.authenticated = false
MountedHook(session, mock) ==
    FetchData([ session     |-> session,
                mock        |-> mock,
                auth        |-> FALSE,
                data        |-> NoData,
                source      |-> "loading",
                isLoading   |-> TRUE,
                error       |-> "",
                initialAuth |-> "pending",
                events      |-> << >>,
                fetches     |-> {},
                started     |-> 0,
                applied     |-> << >>,
                signIn      |-> << >>,
                signOut     |-> FALSE,
                authCalls   |-> 0 ], FALSE)

HookInit ==
    /\ config = FullConfig
    /\ healthState = EmptyHealth
    /\ call = [c \in CallIds |-> IdleCall]
    /\ recorded = [c \in CallIds |-> [e \in EndpointSet |-> <<>>]]
    /\ obs = [e \in EndpointSet |-> <<>>]
    /\ sessionInserts = <<>>
    /\ sessionEvents = <<>>
    /\ console = <<>>
    /\ steps = 0
    /\ RelayIdle
    /\ \E session \in BOOLEAN, mock \in BOOLEAN : hook = MountedHook(session, mock)

HookStep(h) ==
    /\ hook' = h
    /\ UNCHANGED <<config, healthState, call, recorded, obs, sessionInserts, steps,
                   wallClock, minted, sent, gate, sessionEvents, console>>

CanFetch == hook.started < MaxFetches

\* getAuthState().then((state) => setAuth(state)) (useMetricsJWT.ts:160-164)
InitialAuthResolves ==
    /\ hook.initialAuth = "pending"
    /\ hook.session # hook.auth => CanFetch
    /\ HookStep(SetAuth([hook EXCEPT !.initialAuth = "done"], hook.session))

\* the listener given to onAuthStateChange runs (useMetricsJWT.ts:167-171)
AuthChange ==
    /\ hook.events # << >>
    /\ Head(hook.events) # hook.auth => CanFetch
    /\ HookStep(SetAuth([hook EXCEPT !.events = Tail(@)], Head(hook.events)))

\* signIn(email, password) up to await apiSignIn (useMetricsJWT.ts:133-135)
HookSignIn(success) ==
    /\ ~hook.session /\ hook.signIn = << >> /\ hook.authCalls < MaxAuthCalls
    /\ HookStep([hook EXCEPT !.isLoading = TRUE,
                             !.authCalls = @ + 1,
                             !.session = success,
                             !.events = IF success THEN Append(@, TRUE) ELSE @,
                             !.signIn = << [success |-> success, authenticated |-> hook.auth] >>])

\* apiSignIn resolved: on success signIn awaits the fetchData of the render it was
\* created in (useMetricsJWT.ts:137-144)
SignInReturns ==
    /\ hook.signIn # << >>
    /\ hook.signIn[1].success => CanFetch
    /\ HookStep(IF hook.signIn[1].success
                THEN FetchData([hook EXCEPT !.signIn = << >>], hook.signIn[1].authenticated)
                ELSE [hook EXCEPT !.signIn = << >>, !.isLoading = FALSE])

\* signOut() up to await apiSignOut (useMetricsJWT.ts:148-149)
HookSignOut ==
    /\ hook.session /\ ~hook.signOut /\ hook.authCalls < MaxAuthCalls
    /\ HookStep([hook EXCEPT !.authCalls = @ + 1,
                             !.session = FALSE,
                             !.events = Append(@, FALSE),
                             !.signOut = TRUE])

\* apiSignOut resolved (useMetricsJWT.ts:150-151)
SignOutReturns ==
    /\ hook.signOut
    /\ HookStep([hook EXCEPT !.signOut = FALSE,
                             !.data = IF hook.mock THEN MockData ELSE NoData,
                             !.source = IF hook.mock THEN "mock" ELSE "error"])

\* the interval set while auth.authenticated fires (useMetricsJWT.ts:186-188)
IntervalTick ==
    /\ hook.auth /\ CanFetch
    /\ HookStep(FetchData(hook, TRUE))

\* refresh() (useMetricsJWT.ts:127-130)
Refresh ==
    /\ CanFetch
    /\ HookStep(FetchData([hook EXCEPT !.isLoading = TRUE], hook.auth))

\* getJWT() inside fetchDashboardData resolves: without a session the result is an
\* error, else the request leaves with the session's token (metrics-jwt.ts:313-330)
JwtResolves(f) ==
    /\ f \in hook.fetches /\ f.stage = "jwt"
    /\ HookStep(IF hook.session
                THEN [hook EXCEPT !.fetches = (@ \ {f}) \cup { [f EXCEPT !.stage = "http"] }]
                ELSE ApplyResult(hook, f,
                         [data |-> NoData, source |-> "error",
                          error |-> "Not authenticated. Please sign in."]))

\* the edge function's answer arrives (metrics-jwt.ts:332-357)
ResultOf(f, outcome) ==
    CASE outcome = "ok" ->
            [data |-> LiveData(f.seq), source |-> "vps", error |-> ""]
      [] outcome = "unauthorized" ->
            [data |-> NoData, source |-> "error",
             error |-> "Session expired. Please sign in again."]
      [] OTHER ->
            [data |-> NoData, source |-> "error", error |-> "Request failed"]

HttpOutcomes == { "ok", "unauthorized", "failed" }

HttpResolves(f, outcome) ==
    /\ f \in hook.fetches /\ f.stage = "http"
    /\ HookStep(ApplyResult(hook, f, ResultOf(f, outcome)))

HookNext ==
    \/ InitialAuthResolves
    \/ AuthChange
    \/ \E success \in BOOLEAN : HookSignIn(success)
    \/ SignInReturns
    \/ HookSignOut
    \/ SignOutReturns
    \/ IntervalTick
    \/ Refresh
    \/ \E f \in hook.fetches : JwtResolves(f)
    \/ \E f \in hook.fetches, outcome \in HttpOutcomes : HttpResolves(f, outcome)

HookSpec == HookInit /\ [][HookNext]_vars

---------------------------------------------------------------------------
\* KeySpec: the API-key metrics proxy (part_000:1-256), the function that the JWT
\* relay replaces.  `config` is its environment, `call` the requests it serves and
\* `sent` the upstream requests it issued.  Header values and the key are sequences of
\* characters, "" being << >>.

KEY_ALLOWED_PATHS == ALLOWED_PATHS \cup { "/docs", "/redoc" }

\* Deno.env.get("PROXY_API_KEY") ?? "" and Deno.env.get("VPS_METRICS_ENDPOINT") ?? ""
KeyConfigs ==
    [ VPS_METRICS_ENDPOINT : { "", "https://vps" },
      PROXY_API_KEY        : { << >>, << "k", "1" >> } ]

\* values of the Authorization header: none, the key as a bearer token, another key,
\* the bare key, and a value the key is only a part of
KeyHeaders ==
    { << >>,
      << "B", "e", "a", "r", "e", "r", " ", "k", "1" >>,
      << "B", "e", "a", "r", "e", "r", " ", "k", "2" >>,
      << "k", "1" >>,
      << "x", "k", "1", "9" >> }

KeyPaths == { "", "/admin/keys", "/brokers/status", "/docs/index" }

\* s.includes(t)
Includes(s, t) ==
    \E i \in 0..Len(s) : i + Len(t) <= Len(s) /\ SubSeq(s, i + 1, i + Len(t)) = t

\* !(PROXY_API_KEY && !authHeader.includes(PROXY_API_KEY)) (part_000:65, 123)
KeyAccepted(key, authHeader) == ~(key # << >> /\ ~Includes(authHeader, key))

\* "Authorization": `Bearer ${PROXY_API_KEY}`
KeyUpstreamRequest(path, key) ==
    [ path          |-> path,
      authorization |-> << "B", "e", "a", "r", "e", "r", " " >> \o key ]

\* GET /metrics-proxy/proxy?path=..., up to await fetch(vpsUrl) (part_000:49-87)
KeyProxyRequest(c, path, authHeader) ==
    LET arrived == [IdleCall EXCEPT !.route = "key-proxy", !.path = path,
                                    !.authHeader = authHeader]
        allowed == path # "" /\ \E p \in KEY_ALLOWED_PATHS :
                                    \/ path = p
                                    \/ StartsWith(PathTokens(path), PathTokens(p) \o << "/" >>)
        refuse(status, error) ==
            /\ call' = [call EXCEPT ![c] =
                  [arrived EXCEPT !.pc = "done",
                                  !.response = Respond(status, error, "", FALSE, {})]]
            /\ UNCHANGED sent
    IN  /\ call[c].pc = "idle"
        /\ \A d \in CallIds : d < c => call[d].pc # "idle"
        /\ IF ~allowed THEN refuse(400, "Invalid path")
           ELSE IF ~KeyAccepted(config.PROXY_API_KEY, authHeader) THEN refuse(401, "Unauthorized")
           ELSE IF config.VPS_METRICS_ENDPOINT = ""
           THEN refuse(503, "VPS endpoint not configured")
           ELSE /\ call' = [call EXCEPT ![c] = [arrived EXCEPT !.pc = "fetching"]]
                /\ sent' = [sent EXCEPT ![c] =
                               << KeyUpstreamRequest(path, config.PROXY_API_KEY) >>]
        /\ UNCHANGED <<config, healthState, recorded, obs, sessionInserts, steps, wallClock,
                       minted, gate, sessionEvents, console, hook>>

\* GET /metrics-proxy/dashboard, up to await Promise.all(fetchPromises)
\* (part_000:119-161)
KeyDashboardRequest(c, authHeader) ==
    LET arrived == [IdleCall EXCEPT !.route = "key-dashboard", !.authHeader = authHeader]
        refuse(status, error) ==
            /\ call' = [call EXCEPT ![c] =
                  [arrived EXCEPT !.pc = "done",
                                  !.response = Respond(status, error, "", FALSE, {})]]
            /\ UNCHANGED sent
    IN  /\ call[c].pc = "idle"
        /\ \A d \in CallIds : d < c => call[d].pc # "idle"
        /\ IF ~KeyAccepted(config.PROXY_API_KEY, authHeader) THEN refuse(401, "Unauthorized")
           ELSE IF config.VPS_METRICS_ENDPOINT = ""
           THEN refuse(503, "VPS endpoint not configured")
           ELSE /\ call' = [call EXCEPT ![c] = [arrived EXCEPT !.pc = "fetching"]]
                /\ sent' = [sent EXCEPT ![c] =
                               [i \in 1..Len(AGGREGATE_ENDPOINTS) |->
                                   KeyUpstreamRequest(AGGREGATE_ENDPOINTS[i],
                                                      config.PROXY_API_KEY)]]
        /\ UNCHANGED <<config, healthState, recorded, obs, sessionInserts, steps, wallClock,
                       minted, gate, sessionEvents, console, hook>>

\* how the upstream exchange of a request ends: answered 2xx with a body the handler can
\* use, answered non-2xx, or failed with an exception
KeyOutcomes == { "ok", "http", "throw" }

\* the upstream answered (part_000:89-116, 161-253): /proxy passes a non-2xx status on
\* and turns an exception into 500; /dashboard absorbs the failure of a fan-out request
\* and answers 500 only when building the state throws
KeySettles(c, outcome) ==
    /\ call[c].pc = "fetching"
    /\ call' = [call EXCEPT ![c] =
          [@ EXCEPT !.pc = "done",
                    !.response =
                        CASE outcome = "ok" -> Respond(200, "", "", FALSE, {})
                          [] outcome = "http" /\ call[c].route = "key-proxy" ->
                                Respond(502, "VPS request failed", "", FALSE, {})
                          [] outcome = "http" -> Respond(200, "", "", FALSE, {})
                          [] call[c].route = "key-proxy" ->
                                Respond(500, "Proxy error", "", FALSE, {})
                          [] OTHER -> Respond(500, "Dashboard proxy error", "", FALSE, {})]]
    /\ UNCHANGED <<config, healthState, recorded, obs, sessionInserts, steps, wallClock,
                   minted, sent, gate, sessionEvents, console, hook>>

KeyInit ==
    /\ config \in KeyConfigs
    /\ FreshState

KeyNext ==
    \E c \in CallIds :
        \/ \E path \in KeyPaths, authHeader \in KeyHeaders : KeyProxyRequest(c, path, authHeader)
        \/ \E authHeader \in KeyHeaders : KeyDashboardRequest(c, authHeader)
        \/ \E outcome \in KeyOutcomes : KeySettles(c, outcome)

KeySpec == KeyInit /\ [][KeyNext]_vars

---------------------------------------------------------------------------
\* Properties

\* C1: within one aggregation, every fan-out call that has settled (2xx, non-2xx,
\* network exception, unparsable 2xx body) has invoked recordEndpointResult exactly
\* once, with the success flag of its EndpointResult, and a call that has not settled
\* has not invoked it.
C1_RecordedExactlyOnce ==
    \A c \in CallIds, e \in EndpointSet :
        IF call[c].results[e].state = "settled"
        THEN recorded[c][e] = << call[c].results[e].success >>
        ELSE recorded[c][e] = << >>

C1_Witness ==
    /\ call[1].pc = "done"
    /\ AllSettled(1)
    /\ \E e \in EndpointSet : call[1].results[e].success
    /\ \E e \in EndpointSet : ~call[1].results[e].success /\ call[1].results[e].status = 500
    /\ \E e \in EndpointSet : call[1].results[e].error = "throw"
    /\ \E e \in EndpointSet : call[1].results[e].error = "badjson"
    /\ \A e \in EndpointSet : Len(recorded[1][e]) = 1

\* an aggregate request that passed verification, with the upstream base configured and
\* token minting succeeding, has been answered
Served(c) ==
    /\ call[c].pc = "done"
    /\ call[c].route \in Routes
    /\ call[c].authResult.valid
    /\ config.VPS_METRICS_ENDPOINT # ""
    /\ config.INTERNAL_JWT_SECRET # ""

AllBodiesWellFormed(c) ==
    \A e \in EndpointSet :
        call[c].results[e].success => WellFormed(call[c].results[e].data[1])

SettledCalls(e) == { c \in CallIds : call[c].results[e].state = "settled" }

\* C3: under any interleaving of overlapping aggregations no update of an entry is
\* lost: each endpoint's successCount + failureCount is the number of fan-out calls to
\* it that have settled, and successCount the number of those that succeeded (so once
\* K aggregations have settled, the counters add up to K).
C3_NoLostUpdates ==
    \A e \in EndpointSet :
        LET n  == Cardinality(SettledCalls(e))
            ok == Cardinality({ c \in SettledCalls(e) : call[c].results[e].success })
        IN  IF n = 0 THEN e \notin DOMAIN healthState
            ELSE /\ e \in DOMAIN healthState
                 /\ healthState[e].successCount = ok
                 /\ healthState[e].failureCount = n - ok
                 /\ Len(healthState[e].latencies) = n

\* two aggregations have settled whose records interleaved: the first succeeded and the
\* second failed everywhere, and the two endpoints saw them in opposite orders
C3_Witness ==
    /\ call[1].pc = "done" /\ call[2].pc = "done"
    /\ \A e \in EndpointSet : call[1].results[e].success /\ ~call[2].results[e].success
    /\ obs[AGGREGATE_ENDPOINTS[1]][1].success
    /\ ~obs[AGGREGATE_ENDPOINTS[2]][1].success
    /\ \A e \in EndpointSet :
          healthState[e].successCount = 1 /\ healthState[e].failureCount = 1

\* C4: every aggregation whose fan-out has been dispatched eventually returns (each
\* fan-out call settles, by its own timeout when the upstream never responds).
C4_EveryCallReturns ==
    \A c \in {1} : (call[c].pc = "fetching") ~> (call[c].pc = "done")

\* C5: every entry of a payload's proxy.endpoints list belongs to a fan-out call whose
\* recordEndpointResult has already been applied, with the flag the entry shows.
C5_RecordedBeforeListed ==
    \A c \in CallIds :
        call[c].payload # <<>> =>
            LET eps == call[c].payload[1].proxy.endpoints
            IN  \A i \in 1..Len(eps) :
                    /\ recorded[c][eps[i].path] = << eps[i].success >>
                    /\ eps[i].path \in DOMAIN healthState
                    /\ obs[eps[i].path] # <<>>

C5_Witness ==
    /\ call[1].payload # <<>>
    /\ \E i, j \in 1..Len(AGGREGATE_ENDPOINTS) :
          /\ call[1].payload[1].proxy.endpoints[i].success
          /\ ~call[1].payload[1].proxy.endpoints[j].success

\* the records of one aggregation land in an order other than the configured one
C5_AnyOrder ==
    /\ call[1].results[AGGREGATE_ENDPOINTS[5]].state = "settled"
    /\ call[1].results[AGGREGATE_ENDPOINTS[1]].state = "pending"

AllFailed(c) ==
    \A e \in EndpointSet :
        call[c].results[e].state = "settled" /\ ~call[c].results[e].success

\* C6: an aggregation whose five upstream calls all failed is answered 200 with
\* markets.futures.connected = false, markets.crypto.connected = false, positions = []
\* and _health.vpsReachable = false, whatever the health monitor recorded before.
C6_AllFailPayload ==
    \A c \in CallIds :
        (call[c].pc = "done" /\ AllFailed(c)) =>
            /\ call[c].response.status = 200
            /\ call[c].payload # <<>>
            /\ ~call[c].payload[1].markets.futures.connected
            /\ ~call[c].payload[1].markets.crypto.connected
            /\ call[c].payload[1].positions = <<>>
            /\ ~call[c].payload[1].health.vpsReachable

\* the payload's proxy.endpoints: one entry per configured endpoint, in configured
\* order, with the outcome of that endpoint's call, built when all have settled
ProxyListsAll(c) ==
    LET eps == call[c].payload[1].proxy.endpoints
    IN  /\ AllSettled(c)
        /\ Len(eps) = Len(AGGREGATE_ENDPOINTS)
        /\ \A i \in 1..Len(eps) :
              /\ eps[i].path = AGGREGATE_ENDPOINTS[i]
              /\ eps[i].success = call[c].results[AGGREGATE_ENDPOINTS[i]].success

\* a section fed by a failed endpoint holds its defaults
FailedSectionsDefault(c) ==
    LET p == call[c].payload[1]
        failed(e) == ~call[c].results[e].success
    IN  /\ failed("/brokers/status") => ~p.markets.futures.connected
        /\ failed("/trades/live") => p.positions = <<>>
        /\ failed("/strategies/proving") =>
              p.strategyActivity.provingPipeline =
                  [total |-> 0, active |-> 0, queued |-> 0, health |-> 100]
        /\ failed("/strategies/promotions") => p.strategyActivity.promotions.recentCount = 0
        /\ failed("/metrics/gate-pressure") => p.strategyActivity.gatePressure.current = 0

\* a section fed by a successful endpoint holds the upstream's values: a field the
\* body has is copied, a field it lacks takes the fallback (quantity for size) or default
OkSectionsReflect(c) ==
    LET p == call[c].payload[1]
        ok(e) == call[c].results[e].success
        body(e) == call[c].results[e].data[1]
        given(v, d) == IF v # Absent THEN v ELSE d
    IN  /\ ok("/brokers/status") =>
              p.markets.futures.connected = (body("/brokers/status").connected = "true")
        /\ ok("/trades/live") =>
              LET items == body("/trades/live").positions.items
              IN  /\ Len(p.positions) = Len(items)
                  /\ \A i \in 1..Len(items) :
                        p.positions[i].size = given(items[i].size, items[i].quantity)
        /\ ok("/strategies/proving") =>
              LET b == body("/strategies/proving")
              IN  /\ p.strategyActivity.provingPipeline.total = Len(b.strategies.items)
                  /\ p.strategyActivity.provingPipeline.active =
                        CountState(b.strategies.items, "active")
                  /\ p.strategyActivity.provingPipeline.health = given(b.pipeline_health, 100)
        /\ ok("/strategies/promotions") =>
              p.strategyActivity.promotions.recentCount =
                  given(body("/strategies/promotions").recent_count, 0)
        /\ ok("/metrics/gate-pressure") =>
              p.strategyActivity.gatePressure.current =
                  given(body("/metrics/gate-pressure").current_pressure, 0)

\* C7: a merged payload is built only after all five fan-out calls have settled, its
\* proxy.endpoints lists one entry per configured endpoint in configured order with
\* that endpoint's outcome, the sections fed by failed endpoints hold their defaults
\* and the sections fed by successful endpoints reflect the upstream data.
C7_MergedPayload ==
    \A c \in CallIds :
        call[c].payload # <<>> =>
            ProxyListsAll(c) /\ FailedSectionsDefault(c) /\ OkSectionsReflect(c)

\* the part of C7 that does not depend on how a present field is read
C7_Structure ==
    \A c \in CallIds :
        call[c].payload # <<>> => ProxyListsAll(c) /\ FailedSectionsDefault(c)

LastN(s, n) == IF Len(s) <= n THEN s ELSE SubSeq(s, Len(s) - n + 1, Len(s))

LatenciesOf(history) == [i \in 1..Len(history) |-> history[i].latencyMs]

SuccessesIn(history) == Cardinality({ i \in 1..Len(history) : history[i].success })

\* C8: after any sequence of n observations of an endpoint its latency window holds the
\* most recent min(n, HEALTH_WINDOW_SIZE) latencies in arrival order, while the counters,
\* and the success rate the snapshot reports, cover all n observations.
C8_WindowAndRate ==
    \A e \in EndpointSet :
        IF obs[e] = <<>> THEN e \notin DOMAIN healthState
        ELSE /\ e \in DOMAIN healthState
             /\ healthState[e].latencies = LastN(LatenciesOf(obs[e]), HEALTH_WINDOW_SIZE)
             /\ Len(healthState[e].latencies) <= HEALTH_WINDOW_SIZE
             /\ healthState[e].successCount = SuccessesIn(obs[e])
             /\ healthState[e].failureCount = Len(obs[e]) - SuccessesIn(obs[e])
             /\ GetHealthSnapshot(healthState).endpoints[e].successRate =
                    RoundDiv(100 * SuccessesIn(obs[e]), Len(obs[e]))

\* an endpoint that saw more observations than the window holds, the last two recorded
\* in this run, with failures that have left the window's span
C8_Witness ==
    \E e \in EndpointSet :
        /\ steps = 2
        /\ Len(obs[e]) >= HEALTH_WINDOW_SIZE + 3
        /\ Len(healthState[e].latencies) = HEALTH_WINDOW_SIZE
        /\ healthState[e].latencies # SubSeq(LatenciesOf(obs[e]), 1, HEALTH_WINDOW_SIZE)
        /\ healthState[e].failureCount >= 1

\* C9: in a snapshot an endpoint is "healthy" when successCount / (successCount +
\* failureCount) >= 0.9, "degraded" when the rate is >= 0.5 and < 0.9, "down" otherwise.
C9_StatusThresholds ==
    LET snapshot == GetHealthSnapshot(healthState)
    IN  \A e \in DOMAIN snapshot.endpoints :
            LET s == healthState[e].successCount
                t == healthState[e].successCount + healthState[e].failureCount
            IN  /\ t >= 1
                /\ snapshot.endpoints[e].status =
                      (IF 10 * s >= 9 * t THEN "healthy"
                       ELSE IF 10 * s >= 5 * t THEN "degraded"
                       ELSE "down")

\* an endpoint exactly on the 0.9 boundary beside one exactly on the 0.5 boundary
C9_Witness ==
    LET snapshot == GetHealthSnapshot(healthState)
        a == AGGREGATE_ENDPOINTS[1]
        b == AGGREGATE_ENDPOINTS[2]
    IN  /\ a \in DOMAIN healthState /\ b \in DOMAIN healthState
        /\ healthState[a].successCount = 9 /\ healthState[a].failureCount = 1
        /\ snapshot.endpoints[a].status = "healthy"
        /\ healthState[b].successCount = 1 /\ healthState[b].failureCount = 1
        /\ snapshot.endpoints[b].status = "degraded"

\* C10: the health map, and so the snapshot, holds an entry only for an endpoint with
\* at least one recorded observation; before any observation the snapshot is empty.
C10_NoEntryWithoutObservation ==
    LET snapshot == GetHealthSnapshot(healthState)
    IN  /\ \A e \in DOMAIN healthState :
              healthState[e].successCount + healthState[e].failureCount >= 1
        /\ DOMAIN snapshot.endpoints = { e \in EndpointSet : obs[e] # <<>> }
        /\ snapshot.totalEndpoints = Cardinality({ e \in EndpointSet : obs[e] # <<>> })
        /\ (\A e \in EndpointSet : obs[e] = <<>>) =>
              snapshot.totalEndpoints = 0 /\ DOMAIN snapshot.endpoints = {}

C10_Witness ==
    LET snapshot == GetHealthSnapshot(healthState)
    IN  /\ AGGREGATE_ENDPOINTS[3] \in DOMAIN snapshot.endpoints
        /\ AGGREGATE_ENDPOINTS[1] \notin DOMAIN snapshot.endpoints
        /\ snapshot.totalEndpoints = 1
        /\ call[1].results[AGGREGATE_ENDPOINTS[1]].state = "pending"

---------------------------------------------------------------------------
\* Properties of the trust chain (GateSpec)

\* C11: every minted token has exp - iat = 60, aud = 'vps-metrics-api',
\* iss = 'supabase-metrics-proxy', sub = the identity's userId and
\* roles = [the identity's role], at whatever moment createInternalJWT ran.
C11_TokenClaims ==
    gate.token # <<>> =>
        LET token == gate.token[1]
            identity == gate.identity[1]
        IN  /\ token.exp - token.iat = 60
            /\ token.aud = "vps-metrics-api"
            /\ token.iss = "supabase-metrics-proxy"
            /\ token.sub = identity.userId
            /\ token.roles = <<identity.role>>

\* the minted token itself, presented on a protected path before its expiry to a
\* validator holding the relay's secret, has been decided
RoundTripDecided ==
    /\ gate.pc = "done"
    /\ gate.decision # <<>>
    /\ gate.token # <<>>
    /\ gate.request.authorization = Bearer(gate.token[1])
    /\ gate.secret = config.INTERNAL_JWT_SECRET
    /\ wallClock < gate.token[1].exp

\* C12: a token minted for a verified identity and presented to validate_jwt before
\* its expiry, both sides holding the same secret, is allowed, and the X-Auth-User-Id
\* and X-Auth-User-Email headers the validator emits are the identity's userId and
\* email (empty for an identity without email); issuer and audience of minter and
\* validator are equal.
C12_RoundTrip ==
    /\ INTERNAL_JWT_ISSUER = EXPECTED_ISSUER
    /\ INTERNAL_JWT_AUDIENCE = EXPECTED_AUDIENCE
    /\ RoundTripDecided =>
          /\ gate.decision[1].allowed
          /\ gate.decision[1].userId = gate.identity[1].userId
          /\ gate.decision[1].email = gate.identity[1].email

\* a round trip late in the token's life, for the identity that has an email
C12_Witness ==
    /\ RoundTripDecided
    /\ gate.decision[1].allowed
    /\ gate.decision[1].email = "u1@example.com"
    /\ wallClock = gate.token[1].exp - 1

\* C13: no request for a path other than the public /health reaches the metrics
\* service unless validate_jwt allowed that request's Authorization header; a denied
\* request is never proxied upstream.
C13_NoBypass ==
    /\ (gate.received # <<>> /\ gate.request.path # "/health") =>
          /\ gate.received[1].validated
          /\ validate_jwt(gate.request.authorization, gate.secret, wallClock).allowed
    /\ (gate.pc = "done" /\ gate.request.path # "/health"
          /\ ~validate_jwt(gate.request.authorization, gate.secret, wallClock).allowed) =>
          /\ gate.received = <<>>
          /\ gate.status \in { 401, 204 }

\* a token with the wrong audience was presented on a protected path and turned away,
\* and in another run a valid one went through
C13_Witness ==
    /\ gate.pc = "done"
    /\ gate.request.path = "/health/live"
    /\ gate.request.method = "GET"
    /\ gate.request.authorization.kind = "bearer"
    /\ gate.request.authorization.token[1].aud = "other-audience"
    /\ gate.request.authorization.token[1].key = gate.secret
    /\ gate.status = 401
    /\ gate.received = <<>>

C15_TokenNotForwarded ==
    (gate.decision # <<>> /\ gate.decision[1].allowed) =>
        /\ gate.received # <<>>
        /\ gate.received[1].xAuthUserId = <<gate.decision[1].userId>>
        /\ gate.received[1].xAuthUserEmail = <<gate.decision[1].email>>
        /\ gate.received[1].authorization = NoHeader

\* the part of C15 that holds: the identity headers are injected
C15_IdentityInjected ==
    (gate.decision # <<>> /\ gate.decision[1].allowed) =>
        /\ gate.received # <<>>
        /\ gate.received[1].xAuthUserId = <<gate.decision[1].userId>>
        /\ gate.received[1].xAuthUserEmail = <<gate.decision[1].email>>

---------------------------------------------------------------------------
\* Properties of the relay's routes

\* the tokens carried by the upstream requests of call c
TokensCarried(c) == { sent[c][i].authorization : i \in 1..Len(sent[c]) }

\* call c minted at most once; if it issued upstream requests they are the five
\* fan-out requests (one per configured endpoint) or the single /proxy request, and
\* every one of them carries the token the call minted itself, after it arrived
MintsItsOwn(c) ==
    /\ Len(minted[c]) <= 1
    /\ (minted[c] = <<>>) <=> (sent[c] = <<>>)
    /\ sent[c] # <<>> =>
          /\ TokensCarried(c) = { minted[c][1] }
          /\ minted[c][1].iat >= call[c].at
          /\ IF call[c].route = "proxy"
             THEN Len(sent[c]) = 1 /\ sent[c][1].path = call[c].path
             ELSE /\ Len(sent[c]) = Len(AGGREGATE_ENDPOINTS)
                  /\ \A i \in 1..Len(sent[c]) : sent[c][i].path = AGGREGATE_ENDPOINTS[i]

\* C16 as stated: every relay call mints exactly one token that all of its upstream
\* requests carry, and no token is carried by upstream requests of two different calls.
C16_Original ==
    /\ \A c \in CallIds : MintsItsOwn(c)
    /\ \A c, d \in CallIds : c # d => TokensCarried(c) \cap TokensCarried(d) = {}

\* C16 (amended): every relay call that reaches the upstream mints exactly one token,
\* after the call arrived, and all of its upstream requests (5 for an aggregation, 1
\* for /proxy) carry that token; no call carries a token it did not mint itself.  The
\* tokens of two calls are equal as values when both are minted for the same identity
\* within the same clock second.
C16_Amended ==
    \A c \in CallIds : MintsItsOwn(c)

\* an aggregation and a /proxy call, minted in different seconds, both at the upstream
C16_Witness ==
    /\ call[1].route \in Routes
    /\ call[2].route = "proxy"
    /\ Len(sent[1]) = 5
    /\ Len(sent[2]) = 1
    /\ minted[1][1].iat < minted[2][1].iat

\* two calls of one user minted within the same second carry the same token
C16_SameSecond ==
    /\ sent[1] # <<>>
    /\ sent[2] # <<>>
    /\ TokensCarried(1) = TokensCarried(2)

\* C17: a request whose bearer credential is missing, malformed or rejected causes no
\* handler effect on any authenticated path: no token is minted, no upstream request
\* is issued, no health entry changes and no session event is written.
C17_NoEffectUnauthenticated ==
    /\ \A c \in CallIds :
          (call[c].pc # "idle" /\ ~verifySupabaseJWT(call[c].authHeader).valid) =>
              /\ call[c].pc \in { "verifying", "done" }
              /\ minted[c] = <<>>
              /\ sent[c] = <<>>
              /\ \A e \in EndpointSet : recorded[c][e] = <<>>
              /\ call[c].payload = <<>>
    /\ (\A c \in CallIds :
           call[c].pc = "idle" \/ ~verifySupabaseJWT(call[c].authHeader).valid) =>
          /\ healthState = EmptyHealth
          /\ sessionInserts = <<>>
          /\ sessionEvents = <<>>
          /\ console = <<>>

\* a /dashboard request with a rejected credential and a session id was turned away
C17_Witness ==
    /\ call[1].pc = "done"
    /\ call[1].route = "dashboard"
    /\ call[1].authHeader = "Bearer bad"
    /\ call[1].sessionId = "s1"
    /\ call[1].response.status = 401
    /\ getServiceClient(config)

\* credential verification ran for call c and failed
VerificationFailed(c) ==
    /\ call[c].pc = "done"
    /\ call[c].authResult.error # ""

\* C18: on every authenticated path a request that fails credential verification is
\* answered 401 with a body that has an error label, a message and a hint describing
\* how to supply credentials.
C18_UnauthorizedShape ==
    \A c \in CallIds :
        VerificationFailed(c) =>
            /\ call[c].response.status = 401
            /\ call[c].response.error = "Unauthorized"
            /\ call[c].response.message # ""
            /\ call[c].response.hint

\* the part of C18 that holds on every path: 401 with a label and a message
C18_StatusAndMessage ==
    \A c \in CallIds :
        VerificationFailed(c) =>
            /\ call[c].response.status = 401
            /\ call[c].response.error = "Unauthorized"
            /\ call[c].response.message # ""

\* C19: every response to a request that passed credential verification, on any
\* authenticated path, carries X-RateLimit-Limit, X-RateLimit-Remaining,
\* X-RateLimit-Reset and X-API-Version.
C19_AdvisoryHeaders ==
    \A c \in CallIds :
        (call[c].pc = "done" /\ call[c].authResult.valid) =>
            RateLimitHeaders \subseteq call[c].response.headers

\* the part of C19 that holds: the /v1/* routes
C19_V1Only ==
    \A c \in CallIds :
        (call[c].pc = "done" /\ call[c].authResult.valid /\ IsV1(call[c].route)) =>
            RateLimitHeaders \subseteq call[c].response.headers

\* C20: every response of the legacy /dashboard path carries Deprecation, Sunset and
\* the successor Link header, and no response of /v1/metrics/aggregate or of /proxy
\* carries any of them.
C20_DeprecationHeaders ==
    \A c \in CallIds :
        call[c].pc = "done" =>
            /\ call[c].route = "dashboard" =>
                  DeprecationHeaders \subseteq call[c].response.headers
            /\ call[c].route \in { "aggregate", "proxy" } =>
                  call[c].response.headers \cap DeprecationHeaders = {}

\* the part of C20 that holds: the 200 responses of /dashboard, and the other routes
C20_SuccessOnly ==
    \A c \in CallIds :
        call[c].pc = "done" =>
            /\ (call[c].route = "dashboard" /\ call[c].response.status = 200) =>
                  DeprecationHeaders \subseteq call[c].response.headers
            /\ call[c].route \in { "aggregate", "proxy" } =>
                  call[c].response.headers \cap DeprecationHeaders = {}

---------------------------------------------------------------------------
\* Equivalence of the two aggregation routes (TwinSpec)

TwinsDone == call[1].pc = "done" /\ call[2].pc = "done"

\* the request ids of the versioned and of the legacy twin
VersionedTwin == IF call[1].route = "aggregate" THEN 1 ELSE 2
LegacyTwin    == IF call[1].route = "aggregate" THEN 2 ELSE 1

\* the twins made the same aggregator call: same tokens, same upstream requests, same
\* health observations, same session event, same status and same payload
C21_SameCallAndPayload ==
    TwinsDone =>
        /\ minted[1] = minted[2]
        /\ sent[1] = sent[2]
        /\ recorded[1] = recorded[2]
        /\ call[1].results = call[2].results
        /\ call[1].payload = call[2].payload
        /\ call[1].response.status = call[2].response.status
        /\ Len(sessionInserts) \in { 0, 2 }
        /\ Len(sessionInserts) = 2 => sessionInserts[1] = sessionInserts[2]

\* C21: /dashboard and /v1/metrics/aggregate, called with the same credential, session
\* id and upstream answers, make the same aggregator call and return the same payload,
\* and their responses differ in nothing but the deprecation headers of the legacy one.
C21_OnlyDeprecationDiffers ==
    TwinsDone /\ call[VersionedTwin].payload # <<>> =>
        /\ C21_SameCallAndPayload
        /\ call[LegacyTwin].response.error = call[VersionedTwin].response.error
        /\ call[LegacyTwin].response.message = call[VersionedTwin].response.message
        /\ call[LegacyTwin].response.hint = call[VersionedTwin].response.hint
        /\ call[LegacyTwin].response.headers \ DeprecationHeaders
              = call[VersionedTwin].response.headers

C21_Witness ==
    /\ TwinsDone
    /\ call[1].payload # <<>>
    /\ call[2].payload # <<>>
    /\ Len(sessionInserts) = 2
    /\ \E e \in EndpointSet : ~call[2].results[e].success
    /\ \E e \in EndpointSet : call[2].results[e].success

---------------------------------------------------------------------------
\* Configuration failures (Spec)

\* an aggregate request whose credential verified, with the upstream base configured
\* and the signing key missing: createInternalJWT fails
MintFailed(c) ==
    /\ call[c].pc = "done"
    /\ call[c].route \in Routes
    /\ Authorized(call[c].authResult)
    /\ config.VPS_METRICS_ENDPOINT # ""
    /\ config.INTERNAL_JWT_SECRET = ""

\* after a failed mint no upstream request was issued, no health observation was
\* recorded, no session event was dispatched and no token was minted later on
C22_NoUpstreamNoRetry ==
    \A c \in CallIds :
        MintFailed(c) =>
            /\ sent[c] = <<>>
            /\ minted[c] = <<>>
            /\ \A e \in EndpointSet : recorded[c][e] = <<>>
            /\ sessionInserts = <<>>

\* C22: when minting the internal token fails because the signing key is missing, the
\* aggregate request is answered with a 503-class error of its own kind (not the
\* generic 500), no upstream request is issued and minting is not retried.
C22_MintFailureIs503 ==
    \A c \in CallIds :
        MintFailed(c) =>
            /\ call[c].response.status = 503
            /\ call[c].response.error # CatchLabel(call[c].route)
            /\ sent[c] = <<>>
            /\ minted[c] = <<>>

\* C23: with no upstream base configured, every aggregate request (versioned or
\* legacy) whose credential verified is answered 503 with a structured error, and no
\* token is minted, no upstream request issued, no health observation recorded and no
\* session event dispatched; a request whose credential did not verify is answered 401.
C23_NoUpstreamBase ==
    \A c \in CallIds :
        call[c].pc = "done" /\ call[c].route \in Routes /\ config.VPS_METRICS_ENDPOINT = "" =>
            IF verifySupabaseJWT(call[c].authHeader).valid
            THEN /\ call[c].response.status = 503
                 /\ call[c].response.error = "VPS endpoint not configured"
                 /\ call[c].payload = <<>>
                 /\ minted[c] = <<>>
                 /\ sent[c] = <<>>
                 /\ \A e \in EndpointSet : recorded[c][e] = <<>>
                 /\ healthState = EmptyHealth
                 /\ sessionInserts = <<>>
            ELSE call[c].response.status = 401

C23_Witness ==
    /\ config.VPS_METRICS_ENDPOINT = ""
    /\ config.INTERNAL_JWT_SECRET # ""
    /\ getServiceClient(config)
    /\ call[1].pc = "done"
    /\ call[1].route = "dashboard"
    /\ call[1].sessionId = "s1"
    /\ call[1].response.status = 503

---------------------------------------------------------------------------
\* The session recorder (Spec)

\* the request that dispatched insert i
DispatcherOf(i) ==
    CHOOSE c \in CallIds :
        /\ call[c].payload # <<>>
        /\ call[c].sessionId = sessionInserts[i].session_id
        /\ \A d \in CallIds : d < c => call[d].payload = <<>>

\* C24: session recording is fire-and-forget: whatever the state of the insert
\* (pending for ever, stored, answered with an error, rejected), the request that
\* dispatched it has been answered 200 with the payload the aggregator built.
C24_FireAndForget ==
    \A i \in DOMAIN sessionInserts :
        /\ \E c \in CallIds : call[c].payload # <<>> /\ call[c].sessionId # ""
        /\ LET c == DispatcherOf(i)
           IN  /\ call[c].pc = "done"
               /\ call[c].response.status = 200
               /\ call[c].payload =
                     << BuildPayload(call[c].authResult, ResultsOf(c),
                                     GetHealthSnapshot(healthState)) >>
               /\ sessionInserts[i].event_payload.systemState
                     = call[c].payload[1].systemVerdict.state

\* the response is there while the insert is still pending
C24_Witness ==
    /\ Len(sessionInserts) = 1
    /\ sessionInserts[1].state = "pending"
    /\ call[1].pc = "done"
    /\ call[1].response.status = 200
    /\ call[1].payload # <<>>

\* settling the insert changes nothing of any request or of the health monitor
C24_SettleLeavesResponse ==
    [][(\E i \in DOMAIN sessionInserts : sessionInserts'[i] # sessionInserts[i])
          => call' = call /\ healthState' = healthState]_vars

C24_FailedInsertAnswered ==
    /\ Len(sessionInserts) = 1
    /\ sessionInserts[1].state \in { "error", "rejected" }
    /\ call[1].response.status = 200

\* the aggregations that completed their merge for a request with a session id
SessionCalls ==
    { c \in CallIds : call[c].payload # <<>> /\ call[c].sessionId # "" }

\* C25: recordSessionEvent writes nothing and raises nothing when the session id is
\* empty or the storage backend is not configured: an aggregation without X-Session-Id
\* (or on an unconfigured backend) dispatches no insert, stores no row, logs nothing
\* and is answered 200 all the same; an aggregation with a session id dispatches at
\* most one insert.
C25_RecorderFrame ==
    /\ Len(sessionInserts) <= Cardinality(SessionCalls)
    /\ Len(sessionEvents) <= Len(sessionInserts)
    /\ \A i \in DOMAIN sessionInserts : sessionInserts[i].session_id # ""
    /\ ~getServiceClient(config) =>
          sessionInserts = <<>> /\ sessionEvents = <<>> /\ console = <<>>
    /\ \A c \in CallIds :
          call[c].payload # <<>> =>
              call[c].pc = "done" /\ call[c].response.status = 200

C25_Witness ==
    /\ call[1].pc = "done"
    /\ call[1].payload # <<>>
    /\ call[1].sessionId = "s1"
    /\ ~getServiceClient(config)
    /\ sessionInserts = <<>>

C25_NoSessionIdServed ==
    /\ call[1].pc = "done"
    /\ call[1].payload # <<>>
    /\ call[1].sessionId = ""
    /\ getServiceClient(config)
    /\ sessionInserts = <<>>

InsertsIn(states) == { i \in DOMAIN sessionInserts : sessionInserts[i].state \in states }

\* an insert answered with an error result is logged once, changes no response and is
\* not dispatched again
C26_ErrorResultLogged ==
    /\ Len(console) = Cardinality(InsertsIn({ "error" }))
    /\ \A k \in DOMAIN console : console[k] = SessionLogLine
    /\ Len(sessionInserts) <= Cardinality(SessionCalls)
    /\ \A i \in InsertsIn({ "error", "rejected" }) :
          call[DispatcherOf(i)].response.status = 200

\* C26: when the session-event write fails, whether the storage backend answers with
\* an error result or the insert itself is rejected, the failure is written to the
\* log, nothing is raised to the aggregate caller and the write is not retried.
C26_FailureLogged ==
    /\ Len(console) = Cardinality(InsertsIn({ "error", "rejected" }))
    /\ \A k \in DOMAIN console : console[k] = SessionLogLine
    /\ Len(sessionInserts) <= Cardinality(SessionCalls)
    /\ \A i \in InsertsIn({ "error", "rejected" }) :
          call[DispatcherOf(i)].response.status = 200

---------------------------------------------------------------------------
\* Health monitoring of the relay calls (Spec)

\* every settled upstream request of the aggregator was recorded once, for its path
C27_AggregatorRecords ==
    \A c \in CallIds, e \in EndpointSet :
        call[c].route \in Routes /\ call[c].results[e].state = "settled" =>
            /\ Len(recorded[c][e]) = 1
            /\ e \in DOMAIN healthState
            /\ healthState[e].successCount + healthState[e].failureCount >= 1

\* a /proxy request whose upstream request has settled
ProxyRelayed(c) ==
    /\ call[c].route = "proxy"
    /\ call[c].pc = "done"
    /\ sent[c] # <<>>

\* C27: the health monitor is updated by every relay call: each settled upstream
\* request of the aggregator and each settled upstream request of /proxy has resulted
\* in one recordEndpointResult for the path that was called.
C27_EveryRelayRecorded ==
    /\ C27_AggregatorRecords
    /\ \A c \in CallIds :
          ProxyRelayed(c) =>
              /\ call[c].path \in DOMAIN healthState
              /\ healthState[call[c].path].successCount
                    + healthState[call[c].path].failureCount = 1

---------------------------------------------------------------------------
\* The session routes (SessionSpec)

\* a request on `route` answered 200
Answered(c, route) ==
    /\ call[c].pc = "done"
    /\ call[c].route = route
    /\ call[c].response.status = 200

\* the rows of the table that belong to the caller and, when the request names a
\* session, to that session
OwnRows(c) ==
    { i \in DOMAIN sessionEvents :
          /\ sessionEvents[i].user_id = call[c].authResult.userId
          /\ call[c].query.session_id # "" =>
                sessionEvents[i].session_id = call[c].query.session_id }

\* how many of the caller's rows are newer than row i
NewerThan(c, i) ==
    Cardinality({ j \in OwnRows(c) :
                     sessionEvents[j].timestamp_utc > sessionEvents[i].timestamp_utc })

\* the listing holds rows of the table, newest first, each once
ListedNewestFirst(events) ==
    /\ \A k \in DOMAIN events : \E i \in DOMAIN sessionEvents : events[k] = sessionEvents[i]
    /\ \A k, l \in DOMAIN events :
          k < l => events[k].timestamp_utc > events[l].timestamp_utc

\* the listing is the window [offset, offset + limit) of the caller's rows
ListedWindow(c, events, limit, offset) ==
    \A i \in DOMAIN sessionEvents :
        (\E k \in DOMAIN events : events[k] = sessionEvents[i])
            <=> /\ i \in OwnRows(c)
                /\ offset <= NewerThan(c, i)
                /\ NewerThan(c, i) < offset + limit

\* C28: the session events endpoint returns only events of the authenticated user
\* (of the given session when session_id is given), newest first, at most `limit` of
\* them starting at `offset`; the effective limit is a number, 50 when the parameter is
\* not given, and never more than 200 whatever the value of the limit parameter.
C28_Listing ==
    \A c \in CallIds :
        Answered(c, "events") =>
            LET body == call[c].body[1]
            IN  /\ ListedNewestFirst(body.events)
                /\ \A k \in DOMAIN body.events : body.events[k].user_id = "u1"
                /\ body.limit # NaN
                /\ body.limit[1] <= 200
                /\ call[c].query.limit = <<>> => body.limit = Num(50)
                /\ Len(body.events) <= body.limit[1]
                /\ body.offset # NaN
                /\ ListedWindow(c, body.events, body.limit[1], body.offset[1])

\* the same, for the requests whose limit parameter is absent or starts with digits
C28_NumericLimit ==
    \A c \in CallIds :
        Answered(c, "events") /\ parseInt(OrDefault(call[c].query.limit, <<"0">>)) # NaN =>
            LET body == call[c].body[1]
            IN  /\ ListedNewestFirst(body.events)
                /\ \A k \in DOMAIN body.events : body.events[k].user_id = "u1"
                /\ body.limit # NaN
                /\ body.limit[1] <= 200
                /\ call[c].query.limit = <<>> => body.limit = Num(50)
                /\ Len(body.events) <= body.limit[1]
                /\ ListedWindow(c, body.events, body.limit[1], body.offset[1])

C28_PagedListing ==
    /\ Answered(1, "events")
    /\ call[1].query.limit = <<"1">>
    /\ call[1].query.offset = <<"1">>
    /\ Len(call[1].body[1].events) = 1
    /\ Cardinality(OwnRows(1)) = 2
    /\ \E i \in DOMAIN sessionEvents : sessionEvents[i].user_id = "u2"
    /\ parseInt(call[1].query.limit) = Num(1)

\* the caller's rows of the session asked for, oldest first
AscendingRows(c) ==
    [ k \in 1..Cardinality(OwnRows(c)) |->
        sessionEvents[CHOOSE i \in OwnRows(c) :
            Cardinality({ j \in OwnRows(c) :
                sessionEvents[j].timestamp_utc < sessionEvents[i].timestamp_utc }) = k - 1] ]

\* C29: for a request whose credential verified, the export answers 400 and reads
\* nothing when session_id is absent; otherwise what it returns is exactly the caller's
\* events of that session, oldest first (the reverse of the listing's order), in each
\* of the formats json, csv and text.
C29_Export ==
    \A c \in CallIds :
        call[c].pc = "done" /\ call[c].route = "export" /\ call[c].authResult.valid =>
            IF call[c].query.session_id = ""
            THEN /\ call[c].response.status = 400
                 /\ call[c].body = <<>>
            ELSE /\ call[c].response.status \in { 200, 500, 503 }
                 /\ call[c].response.status = 503 <=> ~getServiceClient(config)
                 /\ call[c].response.status = 200 =>
                       LET body == call[c].body[1]
                       IN  CASE call[c].query.format = "csv" ->
                                    body.text = ExportCsv(AscendingRows(c))
                             [] call[c].query.format = "text" ->
                                    body.text = ExportText(AscendingRows(c))
                             [] OTHER ->
                                    /\ body.events = AscendingRows(c)
                                    /\ body.eventCount = Cardinality(OwnRows(c))

\* two events of the session, stored in the reverse of their time order, next to a
\* row of another session or user, exported as csv
C29_Witness ==
    /\ Answered(1, "export")
    /\ call[1].query.format = "csv"
    /\ Cardinality(OwnRows(1)) = 2
    /\ Len(sessionEvents) = 3
    /\ \E i, j \in OwnRows(1) :
          i < j /\ sessionEvents[i].timestamp_utc > sessionEvents[j].timestamp_utc

C29_MissingSessionId ==
    /\ call[1].pc = "done"
    /\ call[1].route = "export"
    /\ call[1].response.status = 400
    /\ ~getServiceClient(config)

---------------------------------------------------------------------------
\* Reading the csv export back (SessionSpec)

\* A csv reader (RFC 4180): records end at a line break, fields at a comma; a field
\* that starts with a double quote runs to its closing quote, a doubled quote inside
\* it standing for one quote; a quote anywhere else is an error.
ReaderStart == [mode |-> "start", field |-> <<>>, record |-> <<>>, records |-> <<>>]

\* what a csv reader makes of a text that is not well-formed
Malformed == << <<"malformed">> >>

\* the reader takes one character
ReadChar(r, ch) ==
    CASE r.mode = "error" -> r
      [] r.mode = "quoted" /\ ch = "\"" -> [r EXCEPT !.mode = "closed"]
      [] r.mode = "quoted" -> [r EXCEPT !.field = Append(@, ch)]
      [] r.mode = "closed" /\ ch = "\"" ->
             [r EXCEPT !.mode = "quoted", !.field = Append(@, "\"")]
      [] ch = "," ->
             [r EXCEPT !.mode = "start", !.field = <<>>, !.record = Append(@, r.field)]
      [] ch = "\n" ->
             [r EXCEPT !.mode = "start", !.field = <<>>, !.record = <<>>,
                       !.records = Append(@, Append(r.record, r.field))]
      [] r.mode = "start" /\ ch = "\"" /\ r.field = <<>> -> [r EXCEPT !.mode = "quoted"]
      [] r.mode = "start" /\ ch # "\"" -> [r EXCEPT !.field = Append(@, ch)]
      [] OTHER -> [r EXCEPT !.mode = "error"]

\* the reader takes the characters lo..hi of the text
RECURSIVE ReadChars(_, _, _, _)
ReadChars(r, text, lo, hi) ==
    IF lo > hi THEN r
    ELSE IF lo = hi THEN ReadChar(r, text[lo])
    ELSE LET mid  == (lo + hi) \div 2
             left == ReadChars(r, text, lo, mid)
         IN  IF left.mode = "error" THEN left ELSE ReadChars(left, text, mid + 1, hi)

ParseCsv(text) ==
    LET r == ReadChars(ReaderStart, text, 1, Len(text))
    IN  CASE r.mode \in { "error", "quoted" } -> Malformed
          [] r.mode = "start" /\ r.record = <<>> /\ r.field = <<>> -> r.records
          [] OTHER -> Append(r.records, Append(r.record, r.field))

HeaderRecord ==
    << CharsOf("id"), CharsOf("session_id"), CharsOf("event_type"),
       CharsOf("timestamp_utc"), CharsOf("event_payload") >>

\* the five values a data row has to hold for event e
FieldsOf(e) ==
    << NatChars(e.id), CharsOf(e.session_id), CharsOf(e.event_type),
       NatChars(e.timestamp_utc), JsonStringify(e.event_payload) >>

\* the records a reader has to get from the export of `events`
RecordsOf(events) ==
    << HeaderRecord >> \o [k \in 1..Len(events) |-> FieldsOf(events[k])]

CsvExported(c) == Answered(c, "export") /\ call[c].query.format = "csv"

\* C30: the csv export of a session with N events reads as the header row
\* id,session_id,event_type,timestamp_utc,event_payload followed by exactly N data
\* rows, one per event in export order, each holding that event's id, session id, type,
\* time stamp and serialized payload ({} for an empty payload).
C30_CsvRows ==
    \A c \in CallIds :
        CsvExported(c) =>
            ParseCsv(call[c].body[1].text) = RecordsOf(AscendingRows(c))

\* the same, for the sessions whose id holds no double quote
C30_PlainSessionIds ==
    \A c \in CallIds :
        CsvExported(c) /\ call[c].query.session_id = "s1" =>
            /\ ParseCsv(call[c].body[1].text) = RecordsOf(AscendingRows(c))
            /\ \A k \in 1..Cardinality(OwnRows(c)) :
                  AscendingRows(c)[k].event_payload = EmptyPayload =>
                      ParseCsv(call[c].body[1].text)[k + 1][5] = <<"{", "}">>

\* the text has one line for the header and one per event
C30_LineCount ==
    \A c \in CallIds :
        CsvExported(c) =>
            LET text == call[c].body[1].text
                n    == Cardinality(OwnRows(c))
            IN  Cardinality({ i \in DOMAIN text : text[i] = "\n" })
                    = IF n = 0 THEN 1 ELSE n

C30_PlainWitness ==
    /\ CsvExported(1)
    /\ call[1].query.session_id = "s1"
    /\ Cardinality(OwnRows(1)) = 2
    /\ \E i \in OwnRows(1) : sessionEvents[i].event_payload = EmptyPayload
    /\ \E i \in OwnRows(1) : sessionEvents[i].event_payload # EmptyPayload

---------------------------------------------------------------------------
\* The health snapshot (HistSpec, HealthSpec)

\* a step in which some fan-out callback or a direct call ran recordEndpointResult
RecordsObservation == obs' # obs

\* C31: getHealthSnapshot is a pure read: a step that changes the health map (the
\* counters, time stamps or latency window of any entry, or its set of keys) is a step
\* of recordEndpointResult; answering /v1/health/detailed and embedding the snapshot in
\* an aggregation leave the map as it was.
C31_SnapshotIsPureRead ==
    [][ /\ healthState' # healthState => RecordsObservation
        /\ \A c \in CallIds :
              (call[c].pc # "done" /\ call'[c].pc = "done"
                  /\ (call'[c].route = "health" \/ call'[c].payload # <<>>))
                 => healthState' = healthState ]_vars

\* /v1/health/detailed answered on a process that has observations
C31_Witness ==
    /\ call[1].pc = "done"
    /\ call[1].route = "health"
    /\ call[1].response.status = 200
    /\ healthState # EmptyHealth
    /\ healthState = HealthOf(obs)

C31_AggregationServed ==
    /\ call[1].pc = "done"
    /\ call[1].payload # <<>>
    /\ healthState = HealthOf(obs)

\* the average of the latencies an endpoint's window holds, from the observations
WindowAverage(e) ==
    LET window == LastN(LatenciesOf(obs[e]), HEALTH_WINDOW_SIZE)
    IN  Frac(SeqSum(window), Len(window))

RECURSIVE SumOfWindowAverages(_)
SumOfWindowAverages(eps) ==
    IF eps = {} THEN Frac(0, 1)
    ELSE LET e == CHOOSE x \in eps : TRUE
         IN  AddFrac(WindowAverage(e), SumOfWindowAverages(eps \ {e}))

SnapshotCounts(snapshot) ==
    LET keys == DOMAIN snapshot.endpoints
    IN  /\ snapshot.totalEndpoints = Cardinality(keys)
        /\ snapshot.healthyEndpoints =
               Cardinality({ e \in keys : snapshot.endpoints[e].status = "healthy" })
        /\ snapshot.degradedEndpoints =
               Cardinality({ e \in keys : snapshot.endpoints[e].status = "degraded" })
        /\ snapshot.healthyEndpoints + snapshot.degradedEndpoints <= snapshot.totalEndpoints
        /\ snapshot.vpsReachable <=> snapshot.healthyEndpoints > 0

\* C32 as stated: in every snapshot totalEndpoints is the number of endpoints of the
\* per-endpoint map, healthyEndpoints and degradedEndpoints count the endpoints of each
\* status, vpsReachable holds exactly when healthyEndpoints > 0, and the overall average
\* latency is the mean of the per-endpoint window averages, 0 without endpoints.
C32_ExactMean ==
    LET snapshot == GetHealthSnapshot(healthState)
        keys     == DOMAIN snapshot.endpoints
        sum      == SumOfWindowAverages(keys)
    IN  /\ SnapshotCounts(snapshot)
        /\ IF keys = {} THEN snapshot.avgOverallLatencyMs = 0
           ELSE snapshot.avgOverallLatencyMs * sum.den * Cardinality(keys) = sum.num

\* C32: the counts and vpsReachable as stated; the overall average latency is the mean
\* of the per-endpoint window averages rounded to the nearest integer, halves upwards,
\* and 0 without endpoints.
C32_RoundedMean ==
    LET snapshot == GetHealthSnapshot(healthState)
        keys     == DOMAIN snapshot.endpoints
        sum      == SumOfWindowAverages(keys)
    IN  /\ SnapshotCounts(snapshot)
        /\ keys = { e \in EndpointSet : obs[e] # <<>> }
        /\ IF keys = {} THEN snapshot.avgOverallLatencyMs = 0
           ELSE LET r == snapshot.avgOverallLatencyMs
                    n == 2 * sum.num
                    d == sum.den * Cardinality(keys)
                IN  (2 * r - 1) * d <= n /\ n < (2 * r + 1) * d

\* two endpoints, one healthy and one down, whose window averages have a mean that is
\* not a whole number
C32_Witness ==
    LET snapshot == GetHealthSnapshot(healthState)
        sum      == SumOfWindowAverages(DOMAIN healthState)
    IN  /\ snapshot.totalEndpoints = 2
        /\ snapshot.healthyEndpoints = 1
        /\ snapshot.degradedEndpoints = 0
        /\ snapshot.vpsReachable
        /\ sum.num % (sum.den * 2) # 0

\* C33: every merged position takes each field by fixed priority: size is the upstream
\* `size` whenever the element has one, the value 0 included, and `quantity` only when
\* `size` is absent; likewise entry_price before avg_price, current_price before
\* mark_price, unrealized_pnl before pnl and open_time before timestamp.
C33_FallbackOnlyWhenAbsent ==
    \A c \in CallIds :
        (call[c].payload # <<>> /\ call[c].results["/trades/live"].success) =>
            LET items == call[c].results["/trades/live"].data[1].positions.items
                merged == call[c].payload[1].positions
                first(v, d) == IF v # Absent THEN v ELSE d
                firstText(v, d) == IF v # "absent" THEN v ELSE d
            IN  /\ Len(merged) = Len(items)
                /\ \A i \in 1..Len(items) :
                      /\ merged[i].size = first(items[i].size, items[i].quantity)
                      /\ merged[i].entryPrice = first(items[i].entry_price, items[i].avg_price)
                      /\ merged[i].currentPrice =
                             first(items[i].current_price, items[i].mark_price)
                      /\ merged[i].pnl = first(items[i].unrealized_pnl, items[i].pnl)
                      /\ merged[i].openTime = firstText(items[i].open_time, items[i].timestamp)

\* the priority as the merge applies it: the second field also replaces a first field
\* that is 0 or the empty string
C33_FallbackWhenFalsy ==
    \A c \in CallIds :
        (call[c].payload # <<>> /\ call[c].results["/trades/live"].success) =>
            LET items == call[c].results["/trades/live"].data[1].positions.items
                merged == call[c].payload[1].positions
                first(v, d) == IF v # Absent /\ v # 0 THEN v ELSE d
                firstText(v, d) == IF v # "absent" /\ v # "" THEN v ELSE d
            IN  /\ Len(merged) = Len(items)
                /\ \A i \in 1..Len(items) :
                      /\ merged[i].size = first(items[i].size, items[i].quantity)
                      /\ merged[i].entryPrice = first(items[i].entry_price, items[i].avg_price)
                      /\ merged[i].currentPrice =
                             first(items[i].current_price, items[i].mark_price)
                      /\ merged[i].pnl = first(items[i].unrealized_pnl, items[i].pnl)
                      /\ merged[i].openTime = firstText(items[i].open_time, items[i].timestamp)

\* C34: the successRate a snapshot reports for an endpoint is an integer from 0 to 100
\* that agrees with the reported status: for all counter values the status is "healthy"
\* exactly when the reported successRate is >= 90 and "down" exactly when it is < 50.
C34_RateAgreesWithStatus ==
    LET snapshot == GetHealthSnapshot(healthState)
    IN  \A e \in DOMAIN snapshot.endpoints :
            LET entry == snapshot.endpoints[e]
            IN  /\ entry.successRate \in 0..100
                /\ entry.status = "healthy" <=> entry.successRate >= 90
                /\ entry.status = "down" <=> entry.successRate < 50

\* what holds between the two: the status follows the unrounded rate, so a healthy
\* endpoint reports at least 90 and an endpoint reporting less than 50 is down
C34_RateBoundsStatus ==
    LET snapshot == GetHealthSnapshot(healthState)
    IN  \A e \in DOMAIN snapshot.endpoints :
            LET entry == snapshot.endpoints[e]
            IN  /\ entry.successRate \in 0..100
                /\ entry.status = "healthy" => entry.successRate >= 90
                /\ entry.successRate < 50 => entry.status = "down"
                /\ entry.status = "down" => entry.successRate <= 50

\* 26 successes in 29 observations: reported as 90 with status "degraded"
C34_RoundedUp ==
    \E e \in DOMAIN healthState :
        /\ healthState[e].successCount = 26 /\ healthState[e].failureCount = 3
        /\ GetHealthSnapshot(healthState).endpoints[e].successRate = 90
        /\ GetHealthSnapshot(healthState).endpoints[e].status = "degraded"

\* C35: in every reachable state the keys of the health map are among the 5 configured
\* aggregate endpoints, and the payload of every completed aggregation carries
\* _health.totalEndpoints = 5: its snapshot is taken after all 5 of the call's own
\* observations were recorded.
C35_AllFiveObserved ==
    /\ Len(AGGREGATE_ENDPOINTS) = 5
    /\ Cardinality(EndpointSet) = 5
    /\ DOMAIN healthState \subseteq EndpointSet
    /\ \A c \in CallIds :
          call[c].payload # <<>> =>
              /\ call[c].payload[1].health.totalEndpoints = 5
              /\ \A e \in EndpointSet : recorded[c][e] # <<>>

\* the first aggregation of the instance completed although one fan-out request threw,
\* one was answered non-2xx and one body did not parse
C35_Witness ==
    \E c \in CallIds :
        /\ call[c].pc = "done" /\ call[c].payload # <<>>
        /\ \A d \in CallIds \ {c} : call[d].pc = "idle"
        /\ \E e \in EndpointSet : call[c].results[e].error = "throw"
        /\ \E e \in EndpointSet : call[c].results[e].error = "badjson"
        /\ \E e \in EndpointSet : call[c].results[e].status = 500
        /\ call[c].payload[1].health.totalEndpoints = 5

ProxyCalls == { c \in CallIds : call[c].route = "proxy" }

\* C36: /proxy issues an upstream request only for a path that is a whitelisted path or
\* starts with a whitelisted path followed by "/"; any other path, the empty one
\* included, is answered 400 with no credential verification, no token minting and no
\* upstream request.
C36_WhitelistFirst ==
    \A c \in ProxyCalls :
        /\ sent[c] # <<>> => call[c].path \in { "/brokers/status", "/trades/history/2024" }
        /\ \A i \in 1..Len(sent[c]) : sent[c][i].path = call[c].path
        /\ call[c].path \in { "", "/admin/keys", "/healthz" } =>
              /\ call[c].pc = "done"
              /\ call[c].response.status = 400
              /\ call[c].authResult = NoAuth
              /\ minted[c] = <<>>
              /\ sent[c] = <<>>

\* a valid credential asks a fully configured relay for a path that only begins like a
\* whitelisted one, and is refused
C36_Witness ==
    \E c \in ProxyCalls :
        /\ config = FullConfig
        /\ call[c].path = "/healthz" /\ call[c].authHeader = "Bearer good"
        /\ call[c].pc = "done" /\ call[c].response.status = 400
        /\ sent[c] = <<>>

\* the same credential is relayed for a path below a whitelisted one
C36_Relayed ==
    \E c \in ProxyCalls :
        /\ call[c].path = "/trades/history/2024" /\ call[c].pc = "done"
        /\ Len(sent[c]) = 1 /\ sent[c][1].path = "/trades/history/2024"
        /\ call[c].response.status = 200

---------------------------------------------------------------------------
\* The dashboard hook (HookSpec)

\* C37: under any interleaving of sign-in, sign-out, auth-change callbacks, interval
\* ticks and fetch completions, whenever the hook's auth state is unauthenticated and no
\* fetch is in flight, source is not "vps" and data is not a live payload.
C37_NoLiveDataSignedOut ==
    (~hook.auth /\ hook.fetches = {}) =>
        (hook.source # "vps" /\ hook.data.kind # "live")

\* the state the race leaves: signed out, nothing pending, live data on screen
C37_StaleLiveData ==
    /\ ~hook.auth /\ ~hook.session
    /\ hook.fetches = {} /\ hook.events = << >> /\ ~hook.signOut /\ hook.signIn = << >>
    /\ hook.initialAuth = "done"
    /\ hook.source = "vps" /\ hook.data.kind = "live"

\* C38: when several fetches overlap, the data and source finally displayed are those
\* of the most recently started fetch; the result of an older fetch never overwrites
\* the result of a newer one.
C38_NewestFetchWins ==
    /\ \A i, j \in DOMAIN hook.applied : i < j => hook.applied[i] < hook.applied[j]
    /\ (hook.fetches = {} /\ hook.applied # << >>) =>
           hook.applied[Len(hook.applied)] = hook.started

\* two live payloads arrived in the reverse of the order their fetches started, and
\* the older one is displayed
C38_OlderDisplayed ==
    \E i \in DOMAIN hook.applied :
        /\ i < Len(hook.applied)
        /\ hook.applied[i] > hook.applied[Len(hook.applied)]
        /\ hook.fetches = {} /\ hook.auth
        /\ hook.source = "vps"
        /\ hook.data = LiveData(hook.applied[Len(hook.applied)])
        /\ hook.data.from < hook.started

---------------------------------------------------------------------------
\* Paging of the session listing (SessionSpec)

\* C39: in the answer of the session events endpoint pagination.hasMore is true exactly
\* when the user has further matching events beyond the returned page, that is beyond
\* offset + limit, for every number of stored events.
C39_HasMore ==
    \A c \in CallIds :
        (Answered(c, "events") /\ call[c].body[1].limit # NaN /\ call[c].body[1].offset # NaN) =>
            LET body == call[c].body[1]
            IN  body.hasMore <=> Cardinality(OwnRows(c)) > body.offset[1] + body.limit[1]

\* what hasMore reports: that the page came back full
C39_PageIsFull ==
    \A c \in CallIds :
        (Answered(c, "events") /\ call[c].body[1].limit # NaN) =>
            (call[c].body[1].hasMore <=> Len(call[c].body[1].events) = call[c].body[1].limit[1])

\* the user's only event fills a page of limit 1: hasMore is reported, nothing follows
C39_FullLastPage ==
    \E c \in CallIds :
        /\ Answered(c, "events")
        /\ call[c].query.limit = <<"1">> /\ call[c].query.offset = <<>>
        /\ Cardinality(OwnRows(c)) = 1
        /\ Len(call[c].body[1].events) = 1
        /\ call[c].body[1].hasMore

---------------------------------------------------------------------------
\* The API-key proxy (KeySpec)

KeyCalls == { c \in CallIds : call[c].route \in { "key-proxy", "key-dashboard" } }

\* the request presents the key the deployment was given
PresentsKey(c) ==
    /\ config.PROXY_API_KEY # << >>
    /\ Includes(call[c].authHeader, config.PROXY_API_KEY)

\* C40: /metrics-proxy/proxy and /metrics-proxy/dashboard issue upstream requests only
\* for requests whose Authorization header contains the configured PROXY_API_KEY and
\* answer 401 otherwise, in every configuration of the key, the unset one included.  (A
\* /proxy request for a path outside the whitelist is refused with 400 before the key
\* is looked at.)
C40_KeyRequired ==
    \A c \in KeyCalls :
        /\ sent[c] # << >> => PresentsKey(c)
        /\ (call[c].pc = "done" /\ ~PresentsKey(c)) =>
              \/ call[c].response.status = 401
              \/ call[c].route = "key-proxy" /\ call[c].response.status = 400

\* with a key configured the guard is as stated
C40_GuardedWhenKeySet ==
    config.PROXY_API_KEY # << >> =>
        \A c \in KeyCalls :
            /\ sent[c] # << >> => PresentsKey(c)
            /\ (call[c].pc = "done" /\ ~PresentsKey(c)) =>
                  \/ call[c].response.status = 401
                  \/ call[c].route = "key-proxy" /\ call[c].response.status = 400

\* no key configured: a request without an Authorization header is relayed and answered
\* 200, on both routes
C40_OpenRelay ==
    /\ config.PROXY_API_KEY = << >>
    /\ \E c, d \in KeyCalls :
          /\ call[c].route = "key-proxy" /\ call[d].route = "key-dashboard"
          /\ call[c].authHeader = << >> /\ call[d].authHeader = << >>
          /\ Len(sent[c]) = 1 /\ Len(sent[d]) = 5
          /\ call[c].response.status = 200 /\ call[d].response.status = 200

====
